---------------------------- MODULE Spec2Model ----------------------------
(***************************************************************************)
(* A model of the chirality-domain core: the deliverable and agent-session *)
(* lifecycle state machines (state_machines.rs), the AgentSession entity   *)
(* (entities/session.rs) and the write-scope guard (write_guard.rs) over a *)
(* small filesystem with directories, files and symbolic links.            *)
(*                                                                         *)
(* Enum values are written as their serde names (SCREAMING_SNAKE_CASE);    *)
(* the Debug rendering used in error values is a separate operator.        *)
(***************************************************************************)
EXTENDS Integers, Sequences, FiniteSets, TLC

\* ------------------------------------------------------------------ bounds
\* Longest recorded lifecycle history (number of states, the first included).
MaxHist == 6
\* Most outputs pushed on one session.
MaxOutputs == 1
\* Clock readings are drawn from 0..MaxClock.
MaxClock == 1

\* ------------------------------------------------- Option / Result values
None == <<>>
Some(x) == <<x>>

NoValue == "-"
NoError == [kind |-> "-", entity |-> "-", from |-> "-", to |-> "-"]

Ok(v) == [ok |-> TRUE, value |-> v, err |-> NoError]
Err(e) == [ok |-> FALSE, value |-> NoValue, err |-> e]

\* No call made yet.
NoResult == [ok |-> FALSE, value |-> NoValue, err |-> NoError]

InvalidStateTransition(entity, from, to) ==
    [kind |-> "InvalidStateTransition", entity |-> entity, from |-> from, to |-> to]

\* ------------------------------------------------------- DeliverableState
Open == "OPEN"
Initialized == "INITIALIZED"
SemanticReady == "SEMANTIC_READY"
InProgress == "IN_PROGRESS"
Checking == "CHECKING"
Issued == "ISSUED"

DeliverableState == {Open, Initialized, SemanticReady, InProgress, Checking, Issued}

\* format!("{:?}", state) of the derived Debug: the variant's name.
DeliverableState_Debug(s) ==
    CASE s = Open -> "Open"
      [] s = Initialized -> "Initialized"
      [] s = SemanticReady -> "SemanticReady"
      [] s = InProgress -> "InProgress"
      [] s = Checking -> "Checking"
      [] s = Issued -> "Issued"

\* A transition table without the rejection edge Checking -> InProgress.
DeliverableState_can_transition_to_NoReject(self, target) ==
    \/ self = Open /\ target = Initialized
    \/ self = Initialized /\ target = SemanticReady
    \/ self = Initialized /\ target = InProgress
    \/ self = SemanticReady /\ target = InProgress
    \/ self = InProgress /\ target = Checking
    \/ self = Checking /\ target = Issued

\* A transition table that forgets the terminal state: Issued can be reopened.
DeliverableState_can_transition_to_Reopen(self, target) ==
    \/ self = Open /\ target = Initialized
    \/ self = Initialized /\ target = SemanticReady
    \/ self = Initialized /\ target = InProgress
    \/ self = SemanticReady /\ target = InProgress
    \/ self = InProgress /\ target = Checking
    \/ self = Checking /\ target = InProgress
    \/ self = Checking /\ target = Issued
    \/ self = Issued /\ target = InProgress

\* A transition table in which the SemanticReady step is not optional.
DeliverableState_can_transition_to_ViaSemanticReady(self, target) ==
    \/ self = Open /\ target = Initialized
    \/ self = Initialized /\ target = SemanticReady
    \/ self = SemanticReady /\ target = InProgress
    \/ self = InProgress /\ target = Checking
    \/ self = Checking /\ target = InProgress
    \/ self = Checking /\ target = Issued

\* A transition table in which work in progress can be issued unchecked.
DeliverableState_can_transition_to_SkipChecking(self, target) ==
    \/ self = Open /\ target = Initialized
    \/ self = Initialized /\ target = SemanticReady
    \/ self = Initialized /\ target = InProgress
    \/ self = SemanticReady /\ target = InProgress
    \/ self = InProgress /\ target = Checking
    \/ self = InProgress /\ target = Issued
    \/ self = Checking /\ target = InProgress
    \/ self = Checking /\ target = Issued

\* A transition table in which a check can only send the work back.
DeliverableState_can_transition_to_NeverIssued(self, target) ==
    \/ self = Open /\ target = Initialized
    \/ self = Initialized /\ target = SemanticReady
    \/ self = Initialized /\ target = InProgress
    \/ self = SemanticReady /\ target = InProgress
    \/ self = InProgress /\ target = Checking
    \/ self = Checking /\ target = InProgress

DeliverableState_can_transition_to(self, target) ==
    \/ self = Open /\ target = Initialized
    \/ self = Initialized /\ target = SemanticReady
    \/ self = Initialized /\ target = InProgress
    \/ self = SemanticReady /\ target = InProgress
    \/ self = InProgress /\ target = Checking
    \/ self = Checking /\ target = InProgress
    \/ self = Checking /\ target = Issued

\* transition_to that hands back the target even when the table forbids it.
DeliverableState_transition_to_Unchecked(self, target) ==
    Ok(target)

DeliverableState_transition_to(self, target) ==
    IF DeliverableState_can_transition_to(self, target)
    THEN Ok(target)
    ELSE Err(InvalidStateTransition("Deliverable",
                                    DeliverableState_Debug(self),
                                    DeliverableState_Debug(target)))

DeliverableState_is_terminal(self) ==
    self = Issued

\* allows_work that still dispatches agents while the deliverable is checked.
DeliverableState_allows_work_WhileChecking(self) ==
    self \in {Initialized, SemanticReady, InProgress, Checking}

DeliverableState_allows_work(self) ==
    self \in {Initialized, SemanticReady, InProgress}

\* ------------------------------------------------------------ AgentClass
Persona == "PERSONA"
Task == "TASK"
AgentClass == {Persona, Task}

Architect == "ARCHITECT"
Manager == "MANAGER"
Specialist == "SPECIALIST"
AgentType == {Architect, Manager, Specialist}

\* ----------------------------------------------------------- SessionState
Created == "CREATED"
Active == "ACTIVE"
Paused == "PAUSED"
Completed == "COMPLETED"
Failed == "FAILED"
Cancelled == "CANCELLED"

SessionState == {Created, Active, Paused, Completed, Failed, Cancelled}

SessionState_Debug(s) ==
    CASE s = Created -> "Created"
      [] s = Active -> "Active"
      [] s = Paused -> "Paused"
      [] s = Completed -> "Completed"
      [] s = Failed -> "Failed"
      [] s = Cancelled -> "Cancelled"

\* is_terminal that leaves Cancelled out.
SessionState_is_terminal_NoCancelled(self) ==
    self \in {Completed, Failed}

SessionState_is_terminal(self) ==
    self \in {Completed, Failed, Cancelled}

SessionState_is_active(self) ==
    self = Active

\* can_pause with the class test dropped.
SessionState_can_pause_AnyClass(self, agent_class) ==
    self = Active

SessionState_can_pause(self, agent_class) ==
    agent_class = Persona /\ self = Active

\* The table with the class test dropped from the pause arms.
SessionState_can_transition_to_AnyClass(self, target, agent_class) ==
    CASE self = Created /\ target = Active -> TRUE
      [] self = Active /\ target = Completed -> TRUE
      [] self = Active /\ target = Failed -> TRUE
      [] self = Active /\ target = Paused -> TRUE
      [] self = Paused /\ target = Active -> TRUE
      [] self = Paused /\ target = Completed -> TRUE
      [] self = Paused /\ target = Failed -> TRUE
      [] target = Cancelled /\ ~SessionState_is_terminal(self) -> TRUE
      [] OTHER -> FALSE

\* The table with an extra arm: a Created session may complete at once.
SessionState_can_transition_to_SkipActive(self, target, agent_class) ==
    CASE self = Created /\ target = Active -> TRUE
      [] self = Created /\ target = Completed -> TRUE
      [] self = Active /\ target = Completed -> TRUE
      [] self = Active /\ target = Failed -> TRUE
      [] self = Active /\ target = Paused /\ agent_class = Persona -> TRUE
      [] self = Paused /\ target = Active /\ agent_class = Persona -> TRUE
      [] self = Paused /\ target = Completed /\ agent_class = Persona -> TRUE
      [] self = Paused /\ target = Failed /\ agent_class = Persona -> TRUE
      [] target = Cancelled /\ ~SessionState_is_terminal(self) -> TRUE
      [] OTHER -> FALSE

\* The table whose cancel arm only matches a running session.
SessionState_can_transition_to_CancelActiveOnly(self, target, agent_class) ==
    CASE self = Created /\ target = Active -> TRUE
      [] self = Active /\ target = Completed -> TRUE
      [] self = Active /\ target = Failed -> TRUE
      [] self = Active /\ target = Paused /\ agent_class = Persona -> TRUE
      [] self = Paused /\ target = Active /\ agent_class = Persona -> TRUE
      [] self = Paused /\ target = Completed /\ agent_class = Persona -> TRUE
      [] self = Paused /\ target = Failed /\ agent_class = Persona -> TRUE
      [] target = Cancelled /\ self = Active -> TRUE
      [] OTHER -> FALSE

\* The table without the resume arm Paused -> Active.
SessionState_can_transition_to_NoResume(self, target, agent_class) ==
    CASE self = Created /\ target = Active -> TRUE
      [] self = Active /\ target = Completed -> TRUE
      [] self = Active /\ target = Failed -> TRUE
      [] self = Active /\ target = Paused /\ agent_class = Persona -> TRUE
      [] self = Paused /\ target = Completed /\ agent_class = Persona -> TRUE
      [] self = Paused /\ target = Failed /\ agent_class = Persona -> TRUE
      [] target = Cancelled /\ ~SessionState_is_terminal(self) -> TRUE
      [] OTHER -> FALSE

\* The table in which a session can fail before it was ever active.
SessionState_can_transition_to_FailCreated(self, target, agent_class) ==
    CASE self = Created /\ target = Active -> TRUE
      [] self = Created /\ target = Failed -> TRUE
      [] self = Active /\ target = Completed -> TRUE
      [] self = Active /\ target = Failed -> TRUE
      [] self = Active /\ target = Paused /\ agent_class = Persona -> TRUE
      [] self = Paused /\ target = Active /\ agent_class = Persona -> TRUE
      [] self = Paused /\ target = Completed /\ agent_class = Persona -> TRUE
      [] self = Paused /\ target = Failed /\ agent_class = Persona -> TRUE
      [] target = Cancelled /\ ~SessionState_is_terminal(self) -> TRUE
      [] OTHER -> FALSE

SessionState_can_transition_to(self, target, agent_class) ==
    CASE self = Created /\ target = Active -> TRUE
      [] self = Active /\ target = Completed -> TRUE
      [] self = Active /\ target = Failed -> TRUE
      [] self = Active /\ target = Paused /\ agent_class = Persona -> TRUE
      [] self = Paused /\ target = Active /\ agent_class = Persona -> TRUE
      [] self = Paused /\ target = Completed /\ agent_class = Persona -> TRUE
      [] self = Paused /\ target = Failed /\ agent_class = Persona -> TRUE
      [] target = Cancelled /\ ~SessionState_is_terminal(self) -> TRUE
      [] OTHER -> FALSE

\* transition_to that hands back the target without asking the table.
SessionState_transition_to_Unchecked(self, target, agent_class) ==
    Ok(target)

SessionState_transition_to(self, target, agent_class) ==
    IF SessionState_can_transition_to(self, target, agent_class)
    THEN Ok(target)
    ELSE Err(InvalidStateTransition("AgentSession",
                                    SessionState_Debug(self),
                                    SessionState_Debug(target)))


\* ------------------------------------------------------------------ paths
\* A path is the sequence of its components after the root, as Path::components
\* yields them: normal names and "..". Every path here is absolute.
Names == {"d", "e", "f"}
DotDot == ".."
Components == Names \cup {DotDot}

\* Candidate target paths have at most MaxPathLen components.
MaxPathLen == 3
\* A resolution that follows more than MaxHops symbolic links fails (ELOOP).
MaxHops == 2
MaxArr == 3
MaxValidate == 3
MaxDocs == 2
MaxLabel == 2

PathsUpTo(n) == UNION {[1..k -> Components] : k \in 0..n}

RECURSIVE PathDisplay(_)
PathDisplay(path) ==
    IF path = <<>> THEN "" ELSE "/" \o Head(path) \o PathDisplay(Tail(path))

\* Path::display(): "/" for the root, else the components after "/".
Path_display(path) == IF path = <<>> THEN "/" ELSE PathDisplay(path)

\* What can follow a name inside a longer name: nothing, or "-x".
NameTails == {"", "-x"}

\* A prefix test on the characters of the displayed paths: some leading part
\* of self reads as base followed by the rest of a longer name.
Path_starts_with_Chars(self, base) ==
    \E k \in 0..Len(self) :
      /\ Len(base) <= k
      /\ \E tail \in NameTails :
           PathDisplay(SubSeq(self, 1, k)) = PathDisplay(base) \o tail

\* Path::starts_with(base): whole-component prefix.
Path_starts_with(self, base) ==
    /\ Len(base) <= Len(self)
    /\ SubSeq(self, 1, Len(base)) = base

Parent(path) == IF path = <<>> THEN <<>> ELSE SubSeq(path, 1, Len(path) - 1)

\* ------------------------------------------------------------- filesystem
\* The filesystem is a set of nodes keyed by canonical path: directories,
\* files and symbolic links (with absolute targets). The root always exists.
DirPaths == {<<"d">>, <<"e">>}
FilePaths == {<<"d", "f">>, <<"e", "f">>}
LinkPaths == {<<"d", "e">>}
LinkTargets == {<<"e">>}
NodePaths == DirPaths \cup FilePaths \cup LinkPaths

Absent == [kind |-> "absent", target |-> <<>>]
DirNode == [kind |-> "dir", target |-> <<>>]
FileNode == [kind |-> "file", target |-> <<>>]
LinkNode(t) == [kind |-> "link", target |-> t]

EmptyFs == [p \in NodePaths |-> Absent]

NodeKind(f, path) ==
    IF path = <<>> THEN "dir"
    ELSE IF path \in DOMAIN f THEN f[path].kind ELSE "absent"

HasChildren(f, path) ==
    \E q \in DOMAIN f : q # path /\ Path_starts_with(q, path) /\ f[q].kind # "absent"

\* std::fs::canonicalize: every component must exist; ".." steps to the
\* parent of the resolved directory; a symbolic link is replaced by its target.
RECURSIVE Walk(_, _, _, _)
Walk(f, cur, rest, hops) ==
    IF rest = <<>> THEN Some(cur)
    ELSE IF NodeKind(f, cur) # "dir" THEN None
    ELSE LET c == Head(rest) IN
         IF c = DotDot THEN Walk(f, Parent(cur), Tail(rest), hops)
         ELSE LET n == Append(cur, c)
                  k == NodeKind(f, n) IN
              CASE k = "absent" -> None
                [] k = "link" -> IF hops = 0 THEN None
                                 ELSE Walk(f, <<>>, f[n].target \o Tail(rest), hops - 1)
                [] OTHER -> Walk(f, n, Tail(rest), hops)

Path_canonicalize(f, path) == Walk(f, <<>>, path, MaxHops)

\* -------------------------------------------------------------- WriteScope
WriteScope_None == [type |-> "NONE", path |-> <<>>, allowed_files |-> <<>>]
WriteScope_DeliverableLocal(deliverable_path) ==
    [type |-> "DELIVERABLE_LOCAL", path |-> deliverable_path, allowed_files |-> <<>>]
WriteScope_ToolRootOnly(root_path) ==
    [type |-> "TOOL_ROOT_ONLY", path |-> root_path, allowed_files |-> <<>>]
WriteScope_RepoMetadataOnly(allowed_files) ==
    [type |-> "REPO_METADATA_ONLY", path |-> <<>>, allowed_files |-> allowed_files]

NoViolation == [target_path |-> <<>>, scope |-> "-", reason |-> "-"]
Allowed == [allowed |-> TRUE, violation |-> NoViolation]
Denied(v) == [allowed |-> FALSE, violation |-> v]
WriteViolation(target_path, scope, reason) ==
    [target_path |-> target_path, scope |-> scope, reason |-> reason]

\* {:?} of a Vec<PathBuf>.
RECURSIVE PathListDebug(_)
PathListDebug(files) ==
    IF files = <<>> THEN ""
    ELSE "\"" \o Path_display(Head(files)) \o "\""
         \o (IF Len(files) > 1 THEN ", " ELSE "") \o PathListDebug(Tail(files))

\* is_within that uses whichever canonical form it got, beside a raw path.
WriteGuard_is_within_Mixed(f, child, parent) ==
    LET child_canonical == Path_canonicalize(f, child)
        parent_canonical == Path_canonicalize(f, parent) IN
    Path_starts_with(IF child_canonical # None THEN child_canonical[1] ELSE child,
                     IF parent_canonical # None THEN parent_canonical[1] ELSE parent)

WriteGuard_is_within(f, child, parent) ==
    LET child_canonical == Path_canonicalize(f, child)
        parent_canonical == Path_canonicalize(f, parent) IN
    IF child_canonical # None /\ parent_canonical # None
    THEN Path_starts_with(child_canonical[1], parent_canonical[1])
    ELSE Path_starts_with(child, parent)

\* validate_write that takes scope None for "no restriction".
WriteGuard_validate_write_NoneAllowed(f, scope, target_path) ==
    CASE scope.type = "NONE" ->
           Allowed
      [] scope.type = "DELIVERABLE_LOCAL" ->
           IF WriteGuard_is_within(f, target_path, scope.path)
           THEN Allowed
           ELSE Denied(WriteViolation(
                    target_path,
                    "DeliverableLocal(" \o Path_display(scope.path) \o ")",
                    "Path is outside deliverable folder: " \o Path_display(scope.path)))
      [] scope.type = "TOOL_ROOT_ONLY" ->
           IF WriteGuard_is_within(f, target_path, scope.path)
           THEN Allowed
           ELSE Denied(WriteViolation(
                    target_path,
                    "ToolRootOnly(" \o Path_display(scope.path) \o ")",
                    "Path is outside tool root: " \o Path_display(scope.path)))
      [] scope.type = "REPO_METADATA_ONLY" ->
           IF \E i \in 1..Len(scope.allowed_files) : scope.allowed_files[i] = target_path
           THEN Allowed
           ELSE Denied(WriteViolation(
                    target_path,
                    "RepoMetadataOnly",
                    "Path is not in allowed metadata files: ["
                        \o PathListDebug(scope.allowed_files) \o "]"))

\* validate_write that hands the deliverable folder and the target to is_within in the wrong order.
WriteGuard_validate_write_Swapped(f, scope, target_path) ==
    CASE scope.type = "NONE" ->
           Denied(WriteViolation(target_path, "None", "Agent has no write permission"))
      [] scope.type = "DELIVERABLE_LOCAL" ->
           IF WriteGuard_is_within(f, scope.path, target_path)
           THEN Allowed
           ELSE Denied(WriteViolation(
                    target_path,
                    "DeliverableLocal(" \o Path_display(scope.path) \o ")",
                    "Path is outside deliverable folder: " \o Path_display(scope.path)))
      [] scope.type = "TOOL_ROOT_ONLY" ->
           IF WriteGuard_is_within(f, target_path, scope.path)
           THEN Allowed
           ELSE Denied(WriteViolation(
                    target_path,
                    "ToolRootOnly(" \o Path_display(scope.path) \o ")",
                    "Path is outside tool root: " \o Path_display(scope.path)))
      [] scope.type = "REPO_METADATA_ONLY" ->
           IF \E i \in 1..Len(scope.allowed_files) : scope.allowed_files[i] = target_path
           THEN Allowed
           ELSE Denied(WriteViolation(
                    target_path,
                    "RepoMetadataOnly",
                    "Path is not in allowed metadata files: ["
                        \o PathListDebug(scope.allowed_files) \o "]"))

\* validate_write whose allow-list test is starts_with instead of equality.
WriteGuard_validate_write_PrefixMatch(f, scope, target_path) ==
    CASE scope.type = "NONE" ->
           Denied(WriteViolation(target_path, "None", "Agent has no write permission"))
      [] scope.type = "DELIVERABLE_LOCAL" ->
           IF WriteGuard_is_within(f, target_path, scope.path)
           THEN Allowed
           ELSE Denied(WriteViolation(
                    target_path,
                    "DeliverableLocal(" \o Path_display(scope.path) \o ")",
                    "Path is outside deliverable folder: " \o Path_display(scope.path)))
      [] scope.type = "TOOL_ROOT_ONLY" ->
           IF WriteGuard_is_within(f, target_path, scope.path)
           THEN Allowed
           ELSE Denied(WriteViolation(
                    target_path,
                    "ToolRootOnly(" \o Path_display(scope.path) \o ")",
                    "Path is outside tool root: " \o Path_display(scope.path)))
      [] scope.type = "REPO_METADATA_ONLY" ->
           IF \E i \in 1..Len(scope.allowed_files) : Path_starts_with(target_path, scope.allowed_files[i])
           THEN Allowed
           ELSE Denied(WriteViolation(
                    target_path,
                    "RepoMetadataOnly",
                    "Path is not in allowed metadata files: ["
                        \o PathListDebug(scope.allowed_files) \o "]"))

WriteGuard_validate_write(f, scope, target_path) ==
    CASE scope.type = "NONE" ->
           Denied(WriteViolation(target_path, "None", "Agent has no write permission"))
      [] scope.type = "DELIVERABLE_LOCAL" ->
           IF WriteGuard_is_within(f, target_path, scope.path)
           THEN Allowed
           ELSE Denied(WriteViolation(
                    target_path,
                    "DeliverableLocal(" \o Path_display(scope.path) \o ")",
                    "Path is outside deliverable folder: " \o Path_display(scope.path)))
      [] scope.type = "TOOL_ROOT_ONLY" ->
           IF WriteGuard_is_within(f, target_path, scope.path)
           THEN Allowed
           ELSE Denied(WriteViolation(
                    target_path,
                    "ToolRootOnly(" \o Path_display(scope.path) \o ")",
                    "Path is outside tool root: " \o Path_display(scope.path)))
      [] scope.type = "REPO_METADATA_ONLY" ->
           IF \E i \in 1..Len(scope.allowed_files) : scope.allowed_files[i] = target_path
           THEN Allowed
           ELSE Denied(WriteViolation(
                    target_path,
                    "RepoMetadataOnly",
                    "Path is not in allowed metadata files: ["
                        \o PathListDebug(scope.allowed_files) \o "]"))

\* ensure_allowed that swallows the violation.
WriteGuard_ensure_allowed_Swallow(f, scope, target_path) ==
    [ok |-> TRUE, err |-> [kind |-> "-", target_path |-> <<>>, scope |-> "-", reason |-> "-"]]

\* Result<(), DomainError> of ensure_allowed.
NoWriteError == [kind |-> "-", target_path |-> <<>>, scope |-> "-", reason |-> "-"]
EnsureOk == [ok |-> TRUE, err |-> NoWriteError]
DomainError_WriteViolation(target_path, scope, reason) ==
    [kind |-> "WriteViolation", target_path |-> target_path,
     scope |-> scope, reason |-> reason]
EnsureErr(e) == [ok |-> FALSE, err |-> e]
\* ensure_allowed not called.
NoEnsure == [ok |-> FALSE, err |-> NoWriteError]

WriteGuard_ensure_allowed(f, scope, target_path) ==
    LET v == WriteGuard_validate_write(f, scope, target_path) IN
    IF v.allowed THEN EnsureOk
    ELSE EnsureErr(DomainError_WriteViolation(v.violation.target_path,
                                              v.violation.scope,
                                              v.violation.reason))

\* The match of is_within on the two canonicalize results.
WriteGuard_is_within_match(child_canonical, parent_canonical, child, parent) ==
    IF child_canonical # None /\ parent_canonical # None
    THEN Path_starts_with(child_canonical[1], parent_canonical[1])
    ELSE Path_starts_with(child, parent)

\* validate_write with the answer of its is_within call handed in.
WriteGuard_validate_write_given(scope, target_path, within) ==
    CASE scope.type = "NONE" ->
           Denied(WriteViolation(target_path, "None", "Agent has no write permission"))
      [] scope.type = "DELIVERABLE_LOCAL" ->
           IF within
           THEN Allowed
           ELSE Denied(WriteViolation(
                    target_path,
                    "DeliverableLocal(" \o Path_display(scope.path) \o ")",
                    "Path is outside deliverable folder: " \o Path_display(scope.path)))
      [] scope.type = "TOOL_ROOT_ONLY" ->
           IF within
           THEN Allowed
           ELSE Denied(WriteViolation(
                    target_path,
                    "ToolRootOnly(" \o Path_display(scope.path) \o ")",
                    "Path is outside tool root: " \o Path_display(scope.path)))
      [] scope.type = "REPO_METADATA_ONLY" ->
           IF \E i \in 1..Len(scope.allowed_files) : scope.allowed_files[i] = target_path
           THEN Allowed
           ELSE Denied(WriteViolation(
                    target_path,
                    "RepoMetadataOnly",
                    "Path is not in allowed metadata files: ["
                        \o PathListDebug(scope.allowed_files) \o "]"))

\* The scopes sessions are declared with.
WriteScopes ==
    { WriteScope_None,
      WriteScope_DeliverableLocal(<<"d">>),
      WriteScope_ToolRootOnly(<<"e">>),
      WriteScope_ToolRootOnly(<<"d", "e">>),
      WriteScope_RepoMetadataOnly(<< <<"d", "f">> >>),
      WriteScope_RepoMetadataOnly(<<>>) }

\* ---------------------------------------------------------- AgentSession
\* The arguments the constructors are called with are drawn from small sets.
Branches == {"session/a"}
Times == 0..MaxClock
SessionOutputs == {"out1"}
TheBrief == [task_definition |-> "Generate docs"]
TheScope == [type |-> "DELIVERABLE", deliverable_id |-> "del:1"]
TheWriteScope == WriteScope_None

AgentSession_new_task(agent_name, brief, scope, write_scope, now) ==
    [ agent_type |-> Specialist,
      agent_class |-> Task,
      agent_name |-> agent_name,
      scope |-> scope,
      brief |-> Some(brief),
      state |-> Created,
      write_scope |-> write_scope,
      outputs |-> <<>>,
      git_branch |-> None,
      started_at |-> now,
      completed_at |-> None ]

AgentSession_new_persona(agent_name, agent_type, scope, write_scope, now) ==
    [ agent_type |-> agent_type,
      agent_class |-> Persona,
      agent_name |-> agent_name,
      scope |-> scope,
      brief |-> None,
      state |-> Created,
      write_scope |-> write_scope,
      outputs |-> <<>>,
      git_branch |-> None,
      started_at |-> now,
      completed_at |-> None ]

AgentSession_with_branch(self, branch) ==
    [self EXCEPT !.git_branch = Some(branch)]

AgentSession_add_output(self, output) ==
    [self EXCEPT !.outputs = Append(@, output)]

\* complete that drops the brief of the finished session.
AgentSession_complete_ClearsBrief(self, now) ==
    [self EXCEPT !.state = Completed, !.completed_at = Some(now), !.brief = None]

AgentSession_complete(self, now) ==
    [self EXCEPT !.state = Completed, !.completed_at = Some(now)]

AgentSession_fail(self, now) ==
    [self EXCEPT !.state = Failed, !.completed_at = Some(now)]

\* ------------------------------------------------------------ Deliverable
Deliverable_new(package_id, label, folder_path) ==
    [ id |-> "del:new",
      package_id |-> package_id,
      label |-> label,
      deliverable_type |-> None,
      discipline |-> None,
      responsible_party |-> None,
      state |-> Open,
      folder_path |-> folder_path,
      documents |-> <<>>,
      anticipated_artifacts |-> <<>> ]

\* format!("{:02}", n): decimal digits, a zero in front of a single digit.
RECURSIVE Decimal(_)
Decimal(n) ==
    LET digit == <<"0", "1", "2", "3", "4", "5", "6", "7", "8", "9">>[(n % 10) + 1] IN
    IF n < 10 THEN digit ELSE Decimal(n \div 10) \o digit

Pad2(n) == IF n < 10 THEN "0" \o Decimal(n) ELSE Decimal(n)

DeliverableId_from_legacy(package_num, deliverable_num) ==
    "DEL-" \o Pad2(package_num) \o "." \o Pad2(deliverable_num)

Deliverable_with_legacy_id(self, package_num, deliverable_num) ==
    [self EXCEPT !.id = DeliverableId_from_legacy(package_num, deliverable_num)]

Deliverable_with_type(self, deliverable_type) ==
    [self EXCEPT !.deliverable_type = Some(deliverable_type)]

Deliverable_with_discipline(self, discipline) ==
    [self EXCEPT !.discipline = Some(discipline)]

Deliverable_with_responsible_party(self, party) ==
    [self EXCEPT !.responsible_party = Some(party)]

\* add_document that puts the new reference in front.
Deliverable_add_document_Prepend(self, doc_ref) ==
    [self EXCEPT !.documents = <<doc_ref>> \o @]

Deliverable_add_document(self, doc_ref) ==
    [self EXCEPT !.documents = Append(@, doc_ref)]

\* The arguments the entity operations are called with.
LegacyNumbers == {<<3, 12>>}
DeliverableTypes == {"Pump"}
Disciplines == {"Mechanical"}
Parties == {"Ann"}

\* DocumentRef values handed to add_document.
DocRefs ==
    { [id |-> "doc:1", document_type |-> "DATASHEET", file_path |-> <<"d", "f">>],
      [id |-> "doc:2", document_type |-> "STATUS", file_path |-> <<"d", "e">>] }

\* ----------------------------------------------------------------- Document
DocumentState_Draft == "DRAFT"
DocumentState_Reviewed == "REVIEWED"
DocumentState_Issued == "ISSUED"

DocumentState == {DocumentState_Draft, DocumentState_Reviewed, DocumentState_Issued}

\* A table that also lets a draft be issued without review.
DocumentState_can_transition_to_IssueDraft(self, target) ==
    <<self, target>> \in { <<DocumentState_Draft, DocumentState_Reviewed>>,
                           <<DocumentState_Reviewed, DocumentState_Draft>>,
                           <<DocumentState_Reviewed, DocumentState_Issued>>,
                           <<DocumentState_Draft, DocumentState_Issued>> }

\* matches!((self, target), (Draft, Reviewed) | (Reviewed, Draft) | (Reviewed, Issued))
DocumentState_can_transition_to(self, target) ==
    \/ self = DocumentState_Draft /\ target = DocumentState_Reviewed
    \/ self = DocumentState_Reviewed /\ target = DocumentState_Draft
    \/ self = DocumentState_Reviewed /\ target = DocumentState_Issued

ContentHashes == {"sha256:0a", "sha256:0b"}
ActorIds == {"human:ann", "agent:4_DOCUMENTS"}

Document_new(deliverable_id, document_type, file_path, content_hash, created_by, now) ==
    [ id |-> "doc:new",
      deliverable_id |-> deliverable_id,
      document_type |-> document_type,
      file_path |-> file_path,
      content_hash |-> content_hash,
      state |-> DocumentState_Draft,
      created_at |-> now,
      updated_at |-> now,
      created_by |-> created_by,
      updated_by |-> created_by ]

\* update_content that records the hash and the time and keeps the actor.
Document_update_content_KeepsActor(self, new_hash, updated_by, now) ==
    [self EXCEPT !.content_hash = new_hash, !.updated_at = now]

Document_update_content(self, new_hash, updated_by, now) ==
    [self EXCEPT !.content_hash = new_hash,
                 !.updated_at = now,
                 !.updated_by = updated_by]

\* ------------------------------------------------------------------ Package
\* A label is a sequence of characters.
LabelChars == {"A", "7", "_", " ", "-"}
Alphanumeric == {"A", "7"}

RECURSIVE LabelsUpTo(_)
LabelsUpTo(n) ==
    IF n = 0 THEN {<<>>}
    ELSE LET shorter == LabelsUpTo(n - 1) IN
         shorter \cup { Append(l, c) : l \in shorter, c \in LabelChars }

Labels == LabelsUpTo(MaxLabel)

\* The characters of a label collected into one string.
RECURSIVE Collect(_)
Collect(chars) ==
    IF chars = <<>> THEN "" ELSE Head(chars) \o Collect(Tail(chars))

\* Ulid::new(): the identifiers the generator can hand out.
Ulids == {"01A", "01B"}

\* format!("pkg:{}", Ulid::new())
PackageId_new(ulid) == "pkg:" \o ulid

\* format!("{:03}", n): decimal digits, zeros in front up to three digits.
Pad3(n) ==
    IF n < 10 THEN "00" \o Decimal(n)
    ELSE IF n < 100 THEN "0" \o Decimal(n)
    ELSE Decimal(n)

\* format!("PKG-{:03}", num)
PackageId_from_legacy(num) == "PKG-" \o Pad3(num)

\* Every character that is neither alphanumeric nor '_' becomes '_'.
Package_sanitize_label(label) ==
    [ i \in 1..Len(label) |->
        IF label[i] \in Alphanumeric \/ label[i] = "_" THEN label[i] ELSE "_" ]

\* format!("{}_{}", PackageId::new(), Self::sanitize_label(label)): the id in
\* front is a newly generated one.
Package_derive_folder_name(label, ulid) ==
    PackageId_new(ulid) \o "_" \o Collect(Package_sanitize_label(label))

\* Package::new generates an identifier in derive_folder_name and another one
\* for the id field.
Package_new(project_id, label, folder_ulid, id_ulid) ==
    [ id |-> PackageId_new(id_ulid),
      project_id |-> project_id,
      label |-> label,
      scope_items |-> <<>>,
      folder_name |-> Package_derive_folder_name(label, folder_ulid) ]

Package_with_legacy_id(self, num) ==
    [self EXCEPT !.id = PackageId_from_legacy(num),
                 !.folder_name = "PKG-" \o Pad3(num) \o "_"
                                   \o Collect(Package_sanitize_label(self.label))]

Package_with_scope_items(self, items) ==
    [self EXCEPT !.scope_items = items]

\* The arguments the package operations are called with.
PackageNumbers == {7, 42, 123}
ScopeItemLists == {<<>>, <<"pumps">>, <<"pumps", "valves">>}

\* ------------------------------------------------------------ JSON values
\* serde_json::Value; an object is a function from the keys present.
JNull == [t |-> "null"]
JBool(b) == [t |-> "bool", b |-> b]
JNumber(n) == [t |-> "number", n |-> n]
JString(s) == [t |-> "string", s |-> s]
JArray(items) == [t |-> "array", items |-> items]
JObject(fields) == [t |-> "object", fields |-> fields]

\* A get that treats a null member as missing.
Value_get_SkipNull(v, key) ==
    IF v.t = "object" /\ key \in DOMAIN v.fields /\ v.fields[key].t # "null"
    THEN Some(v.fields[key])
    ELSE None

\* Value::get(key): the member of an object, None for every other value.
Value_get(v, key) ==
    IF v.t = "object" /\ key \in DOMAIN v.fields THEN Some(v.fields[key]) ELSE None

\* Value::as_str and Value::as_array.
Value_as_str(v) == IF v.t = "string" THEN Some(v.s) ELSE None
Value_as_array(v) == IF v.t = "array" THEN Some(v.items) ELSE None

\* Result<SessionBrief, DomainError> and Result<(), DomainError>.
DomainError_InvalidBrief(reason) == [kind |-> "InvalidBrief", reason |-> reason]
BriefOk(brief) == [ok |-> TRUE, value |-> Some(brief), err |-> None]
BriefErr(e) == [ok |-> FALSE, value |-> None, err |-> Some(e)]
UnitOk == [ok |-> TRUE, value |-> None, err |-> None]
\* No call made.
NoBriefResult == [ok |-> FALSE, value |-> None, err |-> None]

\* ------------------------------------------------------------ brief parser
\* parse_string_array that stops at the first entry that is no string.
RECURSIVE LeadingStrings(_)
LeadingStrings(items) ==
    IF items = <<>> \/ Value_as_str(Head(items)) = None THEN <<>>
    ELSE <<Value_as_str(Head(items))[1]>> \o LeadingStrings(Tail(items))

BriefParser_parse_string_array_TakeWhile(value) ==
    IF value = None THEN <<>>
    ELSE LET arr == Value_as_array(value[1]) IN
         IF arr = None THEN <<>> ELSE LeadingStrings(arr[1])

\* parse_string_array: the strings of an array in their order; empty for a
\* missing value and for a value that is not an array.
BriefParser_parse_string_array(value) ==
    IF value = None THEN <<>>
    ELSE LET arr == Value_as_array(value[1]) IN
         IF arr = None THEN <<>>
         ELSE LET strs == SelectSeq(arr[1], LAMBDA v : Value_as_str(v) # None) IN
              [i \in 1..Len(strs) |-> Value_as_str(strs[i])[1]]

BriefParser_parse(input) ==
    LET td == Value_get(input, "task_definition")
        task_definition == IF td = None THEN None ELSE Value_as_str(td[1])
        sd == Value_get(input, "scope_description")
        scope_description == IF sd = None THEN None ELSE Value_as_str(sd[1])
        inputs == Value_get(input, "inputs") IN
    IF task_definition = None
    THEN BriefErr(DomainError_InvalidBrief("Missing task_definition"))
    ELSE BriefOk([ task_definition |-> task_definition[1],
                   scope_description |->
                       IF scope_description = None THEN "" ELSE scope_description[1],
                   output_contract |->
                       BriefParser_parse_string_array(Value_get(input, "output_contract")),
                   constraints |->
                       BriefParser_parse_string_array(Value_get(input, "constraints")),
                   success_criteria |->
                       BriefParser_parse_string_array(Value_get(input, "success_criteria")),
                   inputs |-> IF inputs = None THEN JNull ELSE inputs[1] ])

BriefParser_validate_4_documents_brief(brief) ==
    IF Value_get(brief.inputs, "deliverable_id") = None
    THEN BriefErr(DomainError_InvalidBrief("4_DOCUMENTS requires deliverable_id in inputs"))
    ELSE UnitOk

\* The PREPARATION check asking for both keys.
BriefParser_validate_preparation_brief_BothRequired(brief) ==
    IF \/ Value_get(brief.inputs, "package_id") = None
       \/ Value_get(brief.inputs, "project_id") = None
    THEN BriefErr(DomainError_InvalidBrief(
             "PREPARATION requires package_id or project_id in inputs"))
    ELSE UnitOk

BriefParser_validate_preparation_brief(brief) ==
    IF /\ Value_get(brief.inputs, "package_id") = None
       /\ Value_get(brief.inputs, "project_id") = None
    THEN BriefErr(DomainError_InvalidBrief(
             "PREPARATION requires package_id or project_id in inputs"))
    ELSE UnitOk

BriefParser_validate_chirality_framework_brief(brief) ==
    IF Value_get(brief.inputs, "deliverable_id") = None
    THEN BriefErr(DomainError_InvalidBrief(
             "CHIRALITY_FRAMEWORK requires deliverable_id in inputs"))
    ELSE UnitOk

BriefParser_validate_dependencies_brief(brief) ==
    IF /\ Value_get(brief.inputs, "deliverable_id") = None
       /\ Value_get(brief.inputs, "package_id") = None
       /\ Value_get(brief.inputs, "project_id") = None
    THEN BriefErr(DomainError_InvalidBrief(
             "DEPENDENCIES requires a scope (deliverable_id, package_id, or project_id)"))
    ELSE UnitOk

BriefParser_validate_aggregation_brief(brief) ==
    IF Value_get(brief.inputs, "project_id") = None
    THEN BriefErr(DomainError_InvalidBrief("AGGREGATION requires project_id in inputs"))
    ELSE UnitOk

\* The match on agent_name taking "4_documents" for "4_DOCUMENTS".
BriefParser_validate_agent_AnyCase(brief, agent_name) ==
    CASE agent_name \in {"4_DOCUMENTS", "4_documents"} ->
             BriefParser_validate_4_documents_brief(brief)
      [] agent_name = "PREPARATION" -> BriefParser_validate_preparation_brief(brief)
      [] agent_name = "CHIRALITY_FRAMEWORK" ->
             BriefParser_validate_chirality_framework_brief(brief)
      [] agent_name = "DEPENDENCIES" -> BriefParser_validate_dependencies_brief(brief)
      [] agent_name = "AGGREGATION" -> BriefParser_validate_aggregation_brief(brief)
      [] OTHER -> UnitOk

BriefParser_validate_agent(brief, agent_name) ==
    CASE agent_name = "4_DOCUMENTS" -> BriefParser_validate_4_documents_brief(brief)
      [] agent_name = "PREPARATION" -> BriefParser_validate_preparation_brief(brief)
      [] agent_name = "CHIRALITY_FRAMEWORK" ->
             BriefParser_validate_chirality_framework_brief(brief)
      [] agent_name = "DEPENDENCIES" -> BriefParser_validate_dependencies_brief(brief)
      [] agent_name = "AGGREGATION" -> BriefParser_validate_aggregation_brief(brief)
      [] OTHER -> UnitOk

\* validate that runs the agent's check before the check of task_definition.
BriefParser_validate_AgentFirst(brief, agent_name) ==
    LET r == BriefParser_validate_agent(brief, agent_name) IN
    IF ~r.ok THEN r
    ELSE IF brief.task_definition = ""
    THEN BriefErr(DomainError_InvalidBrief("task_definition cannot be empty"))
    ELSE UnitOk

BriefParser_validate(brief, agent_name) ==
    IF brief.task_definition = ""
    THEN BriefErr(DomainError_InvalidBrief("task_definition cannot be empty"))
    ELSE BriefParser_validate_agent(brief, agent_name)

\* The inputs handed to parse: an object with each member absent or one of a
\* few values, and values that are no object.
JAbsent == [t |-> "absent"]
ObjectOf(members) ==
    JObject([k \in {m \in DOMAIN members : members[m] # JAbsent} |-> members[k]])

IdKeys == {"deliverable_id", "package_id", "project_id"}
InputsValues ==
    {JAbsent, JNull, JString("del:1")}
    \cup {JObject([k \in ks |-> JString("id")]) : ks \in SUBSET IdKeys}
    \cup {JObject([k \in {key} |-> v]) : key \in IdKeys, v \in {JNull, JString("")}}

BriefInputs ==
    {JNull, JString("X"), JArray(<<JString("task_definition")>>)}
    \cup { ObjectOf([ task_definition |-> td,
                      scope_description |-> sd,
                      output_contract |-> oc,
                      constraints |-> JAbsent,
                      success_criteria |-> sc,
                      inputs |-> inp ]) :
             td \in {JAbsent, JNull, JNumber(7), JString(""), JString("X")},
             sd \in {JAbsent, JNumber(7), JString("S")},
             oc \in {JAbsent, JString("a"),
                     JArray(<<JString("a"), JNumber(7), JString("b")>>)},
             sc \in {JAbsent, JArray(<<JNull, JString("c")>>)},
             inp \in InputsValues }

\* The inputs whose array members vary: one of the three members takes every
\* value, an array of up to MaxArr entries included.
ArrayItems == {JString("a"), JString("b"), JNumber(7), JNull}
ArrayFieldValues ==
    {JAbsent, JNull, JString("a"), JObject([k \in {"a"} |-> JString("a")])}
    \cup {JArray(items) : items \in UNION {[1..n -> ArrayItems] : n \in 0..MaxArr}}
ArrayFields == {"output_contract", "constraints", "success_criteria"}
ParseInputs ==
    { ObjectOf([ task_definition |-> JString("X"),
                 scope_description |-> sd,
                 output_contract |-> IF field = "output_contract" THEN v ELSE other,
                 constraints |-> IF field = "constraints" THEN v ELSE other,
                 success_criteria |-> IF field = "success_criteria" THEN v ELSE other,
                 inputs |-> inp ]) :
        field \in ArrayFields,
        v \in ArrayFieldValues,
        other \in {JAbsent, JArray(<<JNumber(7), JString("z")>>)},
        sd \in {JAbsent, JString("S")},
        inp \in {JAbsent, JObject([k \in {"deliverable_id"} |-> JString("id")])} }

\* The five agent names validate knows, and names it does not.
KnownAgents ==
    {"4_DOCUMENTS", "PREPARATION", "CHIRALITY_FRAMEWORK", "DEPENDENCIES", "AGGREGATION"}
AgentNames == KnownAgents \cup {"ORCHESTRATOR", "4_documents", ""}

\* ------------------------------------------------------------------ state
VARIABLES
    deliverable,   \* the Deliverable entity the orchestrator holds
    dcall,         \* arguments of the last DeliverableState::transition_to call
    dres,          \* its Result
    dhist,         \* history: the states the deliverable has been in, in order
    session,       \* the AgentSession entity
    scall,         \* arguments of the last SessionState::transition_to call
    sres,          \* its Result
    shist,         \* history: the states the session has been in, in order
    fs,            \* the filesystem: node path -> directory, file, link or absent
    write_scope,   \* the WriteScope the session was declared with
    target_path,   \* the candidate path the session wants to write
    gcalled,       \* whether WriteGuard::validate_write has been called
    gfs,           \* the filesystem as it was at the last call
    gres,          \* the WriteValidation the last call returned
    eres,          \* the Result of ensure_allowed, when that was the last call
    targs,         \* per thread: the (scope, target path) it validates
    tpc,           \* per thread: where it is in validate_write
    tchild,        \* per thread: what child.canonicalize() returned
    tfsc,          \* per thread: the filesystem child.canonicalize() read
    tfsp,          \* per thread: the filesystem parent.canonicalize() read
    tres,          \* per thread: the WriteValidation its call returned
    binput,        \* the JSON value handed to BriefParser::parse
    pres,          \* the Result of parse
    vagent,        \* the agent name of the last BriefParser::validate call
    vres,          \* its Result
    vcount,        \* history: how many calls in a row validate had with vagent
    vfirst,        \* history: the Result of the first of them
    cpc,           \* per caller: where it is in read, transition_to, store
    cread,         \* per caller: the DeliverableState it read
    cnew,          \* per caller: the state transition_to returned
    lock,          \* the caller holding the deliverable's lock, or "-"
    serialized,    \* whether the callers take the lock
    document,      \* a Document entity
    doccall,       \* arguments of the last Document::update_content call
    docprev,       \* history: the Document as it was before that call
    dochist,       \* history: the states the document has been in, in order
    package        \* a Package entity

smVars == <<deliverable, dcall, dres, dhist, session, scall, sres, shist>>
guardVars == <<fs, write_scope, target_path, gcalled, gfs, gres, eres>>
mtVars == <<targs, tpc, tchild, tfsc, tfsp, tres>>
briefVars == <<binput, pres, vagent, vres, vcount, vfirst>>
callerVars == <<cpc, cread, cnew, lock, serialized>>
docVars == <<document, doccall, docprev, dochist>>
pkgVars == <<package>>
vars == <<smVars, guardVars, mtVars, briefVars, callerVars, docVars, pkgVars>>

Threads == {"t1", "t2"}

NoCall == [self |-> "-", target |-> "-"]

InitSM ==
    /\ deliverable = Deliverable_new("PKG-001", "Pump datasheet", <<"p", "d">>)
    /\ dcall = NoCall
    /\ dres = NoResult
    /\ dhist = <<deliverable.state>>
    /\ session \in
         {AgentSession_new_task("4_DOCUMENTS", TheBrief, TheScope, TheWriteScope, 0)}
         \cup {AgentSession_new_persona("ORCHESTRATOR", Manager, TheScope, TheWriteScope, 0)}
    /\ scall = NoCall
    /\ sres = NoResult
    /\ shist = <<session.state>>

InitGuard ==
    /\ fs = EmptyFs
    /\ gcalled = FALSE
    /\ gfs = EmptyFs
    /\ gres = Denied(NoViolation)
    /\ eres = NoEnsure

\* No thread is in the guard.
InitThreads ==
    /\ tpc = [t \in Threads |-> "ready"]
    /\ tchild = [t \in Threads |-> None]
    /\ tfsc = [t \in Threads |-> EmptyFs]
    /\ tfsp = [t \in Threads |-> EmptyFs]
    /\ tres = [t \in Threads |-> Denied(NoViolation)]

NoThreadArgs == [scope |-> WriteScope_None, target_path |-> <<>>]

\* No brief has been handed in.
InitBrief ==
    /\ pres = NoBriefResult
    /\ vagent = "-"
    /\ vres = NoBriefResult
    /\ vcount = 0
    /\ vfirst = NoBriefResult

Callers == {"c1", "c2"}

\* No caller is at work on the deliverable.
InitCallers ==
    /\ cpc = [c \in Callers |-> "idle"]
    /\ cread = [c \in Callers |-> Open]
    /\ cnew = [c \in Callers |-> Open]
    /\ lock = "-"

NoDocCall == [new_hash |-> "-", updated_by |-> "-", now |-> 0]

\* A freshly created document.
InitDocument ==
    /\ document \in { Document_new("del:1", "DATASHEET", <<"d", "f">>, h, a, now) :
                        h \in ContentHashes, a \in ActorIds, now \in Times }
    /\ doccall = NoDocCall
    /\ docprev = document
    /\ dochist = <<document.state>>

\* A package nothing has been done with.
InitPackageIdle == package = Package_new("proj:1", <<"A">>, "01A", "01A")

\* Callers, document and package at rest.
InitRest ==
    /\ InitPackageIdle
    /\ InitCallers
    /\ serialized = TRUE
    /\ InitDocument
    /\ document.content_hash = "sha256:0a"
    /\ document.created_by = "human:ann"
    /\ document.created_at = 0

\* The state machines start from fresh entities; the guard is not in use.
Init ==
    /\ InitSM
    /\ InitGuard
    /\ InitThreads
    /\ targs = [t \in Threads |-> NoThreadArgs]
    /\ InitBrief
    /\ InitRest
    /\ binput = JNull
    /\ write_scope = WriteScope_None
    /\ target_path = <<>>

\* A session declared with one of the scopes is about to write one path.
InitGuardSpec ==
    /\ InitSM
    /\ session.agent_class = Task
    /\ InitGuard
    /\ InitThreads
    /\ targs = [t \in Threads |-> NoThreadArgs]
    /\ InitBrief
    /\ InitRest
    /\ binput = JNull
    /\ write_scope \in WriteScopes
    /\ target_path \in PathsUpTo(MaxPathLen)

\* ---------------------------------------------------------------- actions
\* The orchestrator calls state.transition_to(target) on the stored state and
\* stores the new state when the call returns Ok; an Err leaves the entity as
\* it was.
DeliverableTransition(target) ==
    LET r == DeliverableState_transition_to(deliverable.state, target) IN
    /\ r.ok => Len(dhist) < MaxHist
    /\ dcall' = [self |-> deliverable.state, target |-> target]
    /\ dres' = r
    /\ deliverable' = IF r.ok THEN [deliverable EXCEPT !.state = r.value]
                              ELSE deliverable
    /\ dhist' = IF r.ok THEN Append(dhist, r.value) ELSE dhist
    /\ UNCHANGED <<session, scall, sres, shist, guardVars, mtVars, briefVars, callerVars, docVars, pkgVars>>

SessionTransition(target) ==
    LET r == SessionState_transition_to(session.state, target, session.agent_class) IN
    /\ r.ok => Len(shist) < MaxHist
    /\ scall' = [self |-> session.state, target |-> target]
    /\ sres' = r
    /\ session' = IF r.ok THEN [session EXCEPT !.state = r.value] ELSE session
    /\ shist' = IF r.ok THEN Append(shist, r.value) ELSE shist
    /\ UNCHANGED <<deliverable, dcall, dres, dhist, guardVars, mtVars, briefVars, callerVars, docVars, pkgVars>>

SessionComplete ==
    /\ Len(shist) < MaxHist
    /\ \E now \in Times : session' = AgentSession_complete(session, now)
    /\ shist' = Append(shist, session'.state)
    /\ UNCHANGED <<deliverable, dcall, dres, dhist, scall, sres, guardVars, mtVars, briefVars, callerVars, docVars, pkgVars>>

SessionFail ==
    /\ Len(shist) < MaxHist
    /\ \E now \in Times : session' = AgentSession_fail(session, now)
    /\ shist' = Append(shist, session'.state)
    /\ UNCHANGED <<deliverable, dcall, dres, dhist, scall, sres, guardVars, mtVars, briefVars, callerVars, docVars, pkgVars>>

SessionAddOutput ==
    /\ Len(session.outputs) < MaxOutputs
    /\ \E o \in SessionOutputs : session' = AgentSession_add_output(session, o)
    /\ UNCHANGED <<deliverable, dcall, dres, dhist, scall, sres, shist, guardVars, mtVars, briefVars, callerVars, docVars, pkgVars>>

SessionWithBranch ==
    /\ \E b \in Branches : session' = AgentSession_with_branch(session, b)
    /\ UNCHANGED <<deliverable, dcall, dres, dhist, scall, sres, shist, guardVars, mtVars, briefVars, callerVars, docVars, pkgVars>>

\* The lifecycle state machines driven through transition_to alone.
Next ==
    \/ \E target \in DeliverableState : DeliverableTransition(target)
    \/ \E target \in SessionState : SessionTransition(target)

Spec == Init /\ [][Next]_vars

\* The lifecycles without a bound on their length: the orchestrator keeps
\* calling transition_to and stores what a successful call returns; of the
\* history only the current state is kept.
DeliverableAdvance(target) ==
    LET r == DeliverableState_transition_to(deliverable.state, target) IN
    /\ r.ok
    /\ dcall' = [self |-> deliverable.state, target |-> target]
    /\ dres' = r
    /\ deliverable' = [deliverable EXCEPT !.state = r.value]
    /\ dhist' = <<r.value>>
    /\ UNCHANGED <<session, scall, sres, shist, guardVars, mtVars, briefVars, callerVars, docVars, pkgVars>>

DeliverableRefused(target) ==
    LET r == DeliverableState_transition_to(deliverable.state, target) IN
    /\ ~r.ok
    /\ dcall' = [self |-> deliverable.state, target |-> target]
    /\ dres' = r
    /\ UNCHANGED <<deliverable, dhist, session, scall, sres, shist, guardVars, mtVars, briefVars, callerVars, docVars, pkgVars>>

SessionAdvance(target) ==
    LET r == SessionState_transition_to(session.state, target, session.agent_class) IN
    /\ r.ok
    /\ scall' = [self |-> session.state, target |-> target]
    /\ sres' = r
    /\ session' = [session EXCEPT !.state = r.value]
    /\ shist' = <<r.value>>
    /\ UNCHANGED <<deliverable, dcall, dres, dhist, guardVars, mtVars, briefVars, callerVars, docVars, pkgVars>>

SessionRefused(target) ==
    LET r == SessionState_transition_to(session.state, target, session.agent_class) IN
    /\ ~r.ok
    /\ scall' = [self |-> session.state, target |-> target]
    /\ sres' = r
    /\ UNCHANGED <<session, shist, deliverable, dcall, dres, dhist, guardVars, mtVars, briefVars, callerVars, docVars, pkgVars>>

NextLive ==
    \/ \E target \in DeliverableState : DeliverableAdvance(target)
    \/ \E target \in DeliverableState : DeliverableRefused(target)
    \/ \E target \in SessionState : SessionAdvance(target)
    \/ \E target \in SessionState : SessionRefused(target)

\* Each lifecycle keeps moving while a transition is permitted, and a step to
\* a terminal state that is permitted again and again is taken in the end:
\* the loops Checking -> InProgress and Active <-> Paused are not preferred
\* for ever.
FairLive ==
    /\ WF_vars(\E target \in DeliverableState : DeliverableAdvance(target))
    /\ SF_vars(DeliverableAdvance(Issued))
    /\ WF_vars(\E target \in SessionState : SessionAdvance(target))
    /\ SF_vars(\E target \in {Completed, Failed, Cancelled} : SessionAdvance(target))

SpecLive == Init /\ [][NextLive]_vars /\ FairLive

\* The AgentSession entity: transition_to and the entity's own operations.
NextSession ==
    \/ \E target \in SessionState : SessionTransition(target)
    \/ SessionComplete
    \/ SessionFail
    \/ SessionAddOutput
    \/ SessionWithBranch

SpecSession == Init /\ [][NextSession]_vars

\* ------------------------------------------------- filesystem and guard
\* WorkspacePort::create_dir_all: the directory and its missing parents.
FsCreateDirAll(path) ==
    /\ NodeKind(fs, path) = "absent"
    /\ \A k \in 1..(Len(path) - 1) : NodeKind(fs, SubSeq(path, 1, k)) \in {"absent", "dir"}
    /\ fs' = [q \in DOMAIN fs |->
                IF Path_starts_with(path, q) THEN DirNode ELSE fs[q]]
    /\ UNCHANGED <<write_scope, target_path, gcalled, gfs, gres, eres, smVars, mtVars, briefVars, callerVars, docVars, pkgVars>>

\* WorkspacePort::write of a new file into an existing directory.
FsWrite(path) ==
    /\ NodeKind(fs, path) = "absent"
    /\ NodeKind(fs, Parent(path)) = "dir"
    /\ fs' = [fs EXCEPT ![path] = FileNode]
    /\ UNCHANGED <<write_scope, target_path, gcalled, gfs, gres, eres, smVars, mtVars, briefVars, callerVars, docVars, pkgVars>>

\* GitPort::checkout materialises a tracked symbolic link in the working tree.
FsSymlink(path, target) ==
    /\ NodeKind(fs, path) = "absent"
    /\ NodeKind(fs, Parent(path)) = "dir"
    /\ fs' = [fs EXCEPT ![path] = LinkNode(target)]
    /\ UNCHANGED <<write_scope, target_path, gcalled, gfs, gres, eres, smVars, mtVars, briefVars, callerVars, docVars, pkgVars>>

\* WorkspacePort::delete of a file, a link or an empty directory.
FsDelete(path) ==
    /\ NodeKind(fs, path) # "absent"
    /\ ~HasChildren(fs, path)
    /\ fs' = [fs EXCEPT ![path] = Absent]
    /\ UNCHANGED <<write_scope, target_path, gcalled, gfs, gres, eres, smVars, mtVars, briefVars, callerVars, docVars, pkgVars>>

ValidateWrite ==
    /\ gcalled' = TRUE
    /\ gfs' = fs
    /\ gres' = WriteGuard_validate_write(fs, write_scope, target_path)
    /\ eres' = NoEnsure
    /\ UNCHANGED <<fs, write_scope, target_path, smVars, mtVars, briefVars, callerVars, docVars, pkgVars>>

\* ensure_allowed calls validate_write and turns a denial into an error.
EnsureAllowed ==
    /\ gcalled' = TRUE
    /\ gfs' = fs
    /\ gres' = WriteGuard_validate_write(fs, write_scope, target_path)
    /\ eres' = WriteGuard_ensure_allowed(fs, write_scope, target_path)
    /\ UNCHANGED <<fs, write_scope, target_path, smVars, mtVars, briefVars, callerVars, docVars, pkgVars>>

NextGuard ==
    \/ \E path \in DirPaths : FsCreateDirAll(path)
    \/ \E path \in FilePaths : FsWrite(path)
    \/ \E path \in LinkPaths, target \in LinkTargets : FsSymlink(path, target)
    \/ \E path \in NodePaths : FsDelete(path)
    \/ ValidateWrite
    \/ EnsureAllowed

SpecGuard == InitGuardSpec /\ [][NextGuard]_vars

\* ------------------------------------- the guard and look-alike folder names
\* A deliverable folder and a sibling whose name begins with the same
\* characters.
SiblingRoot == <<"p", "DEL-01.01">>
SiblingFolder == <<"p", "DEL-01.01-x">>
SiblingDirs == {<<"p">>, SiblingRoot, SiblingFolder}
SiblingFiles == {Append(SiblingRoot, "f"), Append(SiblingFolder, "f")}
SiblingNodePaths == SiblingDirs \cup SiblingFiles

SiblingScopes ==
    { WriteScope_DeliverableLocal(SiblingRoot), WriteScope_ToolRootOnly(SiblingRoot),
      WriteScope_DeliverableLocal(SiblingFolder) }

SiblingTargets ==
    SiblingNodePaths \cup { <<"p", "DEL-01.01", "..", "DEL-01.01-x", "f">> }

InitGuardSiblings ==
    /\ InitSM
    /\ session.agent_class = Task
    /\ fs = [q \in SiblingNodePaths |-> Absent]
    /\ gcalled = FALSE
    /\ gfs = fs
    /\ gres = Denied(NoViolation)
    /\ eres = NoEnsure
    /\ InitThreads
    /\ targs = [t \in Threads |-> NoThreadArgs]
    /\ InitBrief
    /\ InitRest
    /\ binput = JNull
    /\ write_scope \in SiblingScopes
    /\ target_path \in SiblingTargets

NextGuardSiblings ==
    \/ \E path \in SiblingDirs : FsCreateDirAll(path)
    \/ \E path \in SiblingFiles : FsWrite(path)
    \/ FsSymlink(SiblingFolder, SiblingRoot)
    \/ \E path \in SiblingNodePaths : FsDelete(path)
    \/ ValidateWrite
    \/ EnsureAllowed

SpecGuardSiblings == InitGuardSiblings /\ [][NextGuardSiblings]_vars

\* ------------------------------------------ the guard called from threads
RootedScopeTypes == {"DELIVERABLE_LOCAL", "TOOL_ROOT_ONLY"}

\* What the threads validate.
ThreadArgs ==
    { [scope |-> WriteScope_None, target_path |-> <<"d", "e", "f">>],
      [scope |-> WriteScope_DeliverableLocal(<<"d">>), target_path |-> <<"d", "e", "f">>],
      [scope |-> WriteScope_ToolRootOnly(<<"e">>), target_path |-> <<"d", "e", "f">>],
      [scope |-> WriteScope_RepoMetadataOnly(<< <<"d", "f">> >>), target_path |-> <<"d", "f">>] }

\* A call under None or RepoMetadataOnly returns without reading the
\* filesystem.
GuardDirect(t) ==
    /\ tpc[t] \in {"ready", "done"}
    /\ targs[t].scope.type \notin RootedScopeTypes
    /\ tres' = [tres EXCEPT ![t] =
                  WriteGuard_validate_write_given(targs[t].scope, targs[t].target_path, FALSE)]
    /\ tpc' = [tpc EXCEPT ![t] = "done"]
    /\ tchild' = [tchild EXCEPT ![t] = None]
    /\ tfsc' = [tfsc EXCEPT ![t] = EmptyFs]
    /\ tfsp' = [tfsp EXCEPT ![t] = EmptyFs]
    /\ UNCHANGED <<targs, guardVars, smVars, briefVars, callerVars, docVars, pkgVars>>

\* A call under a rooted scope enters is_within: child.canonicalize().
GuardCanonChild(t) ==
    /\ tpc[t] \in {"ready", "done"}
    /\ targs[t].scope.type \in RootedScopeTypes
    /\ tchild' = [tchild EXCEPT ![t] = Path_canonicalize(fs, targs[t].target_path)]
    /\ tfsc' = [tfsc EXCEPT ![t] = fs]
    /\ tfsp' = [tfsp EXCEPT ![t] = EmptyFs]
    /\ tres' = [tres EXCEPT ![t] = Denied(NoViolation)]
    /\ tpc' = [tpc EXCEPT ![t] = "canon"]
    /\ UNCHANGED <<targs, guardVars, smVars, briefVars, callerVars, docVars, pkgVars>>

\* A second call with given arguments answers what an earlier call with
\* these arguments answered.
GuardCanonParent_Cached(t) ==
    /\ tpc[t] = "canon"
    /\ LET known == {u \in Threads : /\ u # t
                                      /\ tpc[u] = "done"
                                      /\ targs[u] = targs[t]}
           parent_canonical == Path_canonicalize(fs, targs[t].scope.path) IN
       tres' = [tres EXCEPT ![t] =
                  IF known # {} THEN tres[CHOOSE u \in known : TRUE]
                  ELSE WriteGuard_validate_write_given(
                         targs[t].scope, targs[t].target_path,
                         WriteGuard_is_within_match(tchild[t], parent_canonical,
                             targs[t].target_path, targs[t].scope.path))]
    /\ tfsp' = [tfsp EXCEPT ![t] = fs]
    /\ tpc' = [tpc EXCEPT ![t] = "done"]
    /\ UNCHANGED <<targs, tchild, tfsc, guardVars, smVars, briefVars, callerVars, docVars, pkgVars>>

\* parent.canonicalize(), the match, and the return of validate_write.
GuardCanonParent(t) ==
    /\ tpc[t] = "canon"
    /\ LET parent_canonical == Path_canonicalize(fs, targs[t].scope.path) IN
       tres' = [tres EXCEPT ![t] =
                  WriteGuard_validate_write_given(
                      targs[t].scope, targs[t].target_path,
                      WriteGuard_is_within_match(tchild[t], parent_canonical,
                          targs[t].target_path, targs[t].scope.path))]
    /\ tfsp' = [tfsp EXCEPT ![t] = fs]
    /\ tpc' = [tpc EXCEPT ![t] = "done"]
    /\ UNCHANGED <<targs, tchild, tfsc, guardVars, smVars, briefVars, callerVars, docVars, pkgVars>>

\* Two threads of one orchestrator, each about to validate a write.
InitGuardThreads ==
    /\ InitSM
    /\ session.agent_class = Task
    /\ InitGuard
    /\ write_scope = WriteScope_None
    /\ target_path = <<>>
    /\ InitThreads
    /\ targs \in [Threads -> ThreadArgs]
    /\ InitBrief
    /\ InitRest
    /\ binput = JNull

NextGuardThreads ==
    \/ \E path \in DirPaths : FsCreateDirAll(path)
    \/ \E path \in {<<"e", "f">>} : FsWrite(path)
    \/ \E path \in LinkPaths, target \in LinkTargets : FsSymlink(path, target)
    \/ \E path \in NodePaths : FsDelete(path)
    \/ \E t \in Threads : GuardDirect(t)
    \/ \E t \in Threads : GuardCanonChild(t)
    \/ \E t \in Threads : GuardCanonParent(t)

SpecGuardThreads == InitGuardThreads /\ [][NextGuardThreads]_vars

\* ---------------------------------------------------------- session briefs
\* The orchestrator parses the input it was given.
BriefParse ==
    /\ pres' = BriefParser_parse(binput)
    /\ vagent' = "-"
    /\ vres' = NoBriefResult
    /\ vcount' = 0
    /\ vfirst' = NoBriefResult
    /\ UNCHANGED <<binput, smVars, guardVars, mtVars, callerVars, docVars, pkgVars>>

\* It validates the brief parse returned for the agent it is about to start.
\* validate that takes brief.inputs out of the brief it is handed.
BriefValidate_Consuming(agent_name) ==
    /\ pres.ok
    /\ agent_name = vagent => vcount < MaxValidate
    /\ vagent' = agent_name
    /\ vres' = BriefParser_validate(pres.value[1], agent_name)
    /\ pres' = BriefOk([pres.value[1] EXCEPT !.inputs = JNull])
    /\ vcount' = IF agent_name = vagent THEN vcount + 1 ELSE 1
    /\ vfirst' = IF agent_name = vagent THEN vfirst ELSE vres'
    /\ UNCHANGED <<binput, smVars, guardVars, mtVars, callerVars, docVars, pkgVars>>

BriefValidate(agent_name) ==
    /\ pres.ok
    /\ agent_name = vagent => vcount < MaxValidate
    /\ vagent' = agent_name
    /\ vres' = BriefParser_validate(pres.value[1], agent_name)
    /\ vcount' = IF agent_name = vagent THEN vcount + 1 ELSE 1
    /\ vfirst' = IF agent_name = vagent THEN vfirst ELSE vres'
    /\ UNCHANGED <<binput, pres, smVars, guardVars, mtVars, callerVars, docVars, pkgVars>>

InitBriefSpec ==
    /\ InitSM
    /\ session.agent_class = Task
    /\ InitGuard
    /\ write_scope = WriteScope_None
    /\ target_path = <<>>
    /\ InitThreads
    /\ targs = [t \in Threads |-> NoThreadArgs]
    /\ InitBrief
    /\ InitRest
    /\ binput \in BriefInputs

NextBrief ==
    \/ BriefParse
    \/ \E agent_name \in AgentNames : BriefValidate(agent_name)

SpecBrief == InitBriefSpec /\ [][NextBrief]_vars

\* parse alone, over inputs whose array members vary.
InitParseSpec ==
    /\ InitSM
    /\ session.agent_class = Task
    /\ InitGuard
    /\ write_scope = WriteScope_None
    /\ target_path = <<>>
    /\ InitThreads
    /\ targs = [t \in Threads |-> NoThreadArgs]
    /\ InitBrief
    /\ InitRest
    /\ binput \in ParseInputs

NextParse == BriefParse

SpecParse == InitParseSpec /\ [][NextParse]_vars

\* ------------------------------------------------- the Deliverable entity
DeliverableWithLegacyId ==
    /\ \E n \in LegacyNumbers :
         deliverable' = Deliverable_with_legacy_id(deliverable, n[1], n[2])
    /\ UNCHANGED <<dcall, dres, dhist, session, scall, sres, shist,
                   guardVars, mtVars, briefVars, callerVars, docVars, pkgVars>>

DeliverableWithType ==
    /\ \E t \in DeliverableTypes : deliverable' = Deliverable_with_type(deliverable, t)
    /\ UNCHANGED <<dcall, dres, dhist, session, scall, sres, shist,
                   guardVars, mtVars, briefVars, callerVars, docVars, pkgVars>>

DeliverableWithDiscipline ==
    /\ \E d \in Disciplines : deliverable' = Deliverable_with_discipline(deliverable, d)
    /\ UNCHANGED <<dcall, dres, dhist, session, scall, sres, shist,
                   guardVars, mtVars, briefVars, callerVars, docVars, pkgVars>>

DeliverableWithResponsibleParty ==
    /\ \E party \in Parties :
         deliverable' = Deliverable_with_responsible_party(deliverable, party)
    /\ UNCHANGED <<dcall, dres, dhist, session, scall, sres, shist,
                   guardVars, mtVars, briefVars, callerVars, docVars, pkgVars>>

DeliverableAddDocument ==
    /\ Len(deliverable.documents) < MaxDocs
    /\ \E doc_ref \in DocRefs :
         deliverable' = Deliverable_add_document(deliverable, doc_ref)
    /\ UNCHANGED <<dcall, dres, dhist, session, scall, sres, shist,
                   guardVars, mtVars, briefVars, callerVars, docVars, pkgVars>>

InitDeliverableSpec ==
    /\ Init
    /\ session.agent_class = Task

\* The Deliverable entity: transition_to and the entity's own operations.
NextDeliverable ==
    \/ \E target \in DeliverableState : DeliverableTransition(target)
    \/ DeliverableWithLegacyId
    \/ DeliverableWithType
    \/ DeliverableWithDiscipline
    \/ DeliverableWithResponsibleParty
    \/ DeliverableAddDocument

SpecDeliverable == InitDeliverableSpec /\ [][NextDeliverable]_vars

\* ------------------------------------- callers sharing one stored deliverable
\* CallerRead of a caller that does not wait for the lock.
CallerRead_Barging(c) ==
    /\ cpc[c] = "idle"
    /\ lock' = IF serialized THEN c ELSE lock
    /\ cread' = [cread EXCEPT ![c] = deliverable.state]
    /\ cpc' = [cpc EXCEPT ![c] = "read"]
    /\ UNCHANGED <<cnew, serialized, smVars, guardVars, mtVars, briefVars, docVars, pkgVars>>

\* A caller reads the stored state; when the callers serialize, it first
\* takes the deliverable's lock.
CallerRead(c) ==
    /\ cpc[c] = "idle"
    /\ serialized => lock = "-"
    /\ lock' = IF serialized THEN c ELSE lock
    /\ cread' = [cread EXCEPT ![c] = deliverable.state]
    /\ cpc' = [cpc EXCEPT ![c] = "read"]
    /\ UNCHANGED <<cnew, serialized, smVars, guardVars, mtVars, briefVars, docVars, pkgVars>>

\* It calls transition_to on the value it read; on Err it gives up and has
\* nothing to store.
CallerTransition(c, target) ==
    LET r == DeliverableState_transition_to(cread[c], target) IN
    /\ cpc[c] = "read"
    /\ cnew' = [cnew EXCEPT ![c] = IF r.ok THEN r.value ELSE cread[c]]
    /\ cpc' = [cpc EXCEPT ![c] = IF r.ok THEN "called" ELSE "idle"]
    /\ lock' = IF ~r.ok /\ lock = c THEN "-" ELSE lock
    /\ UNCHANGED <<cread, serialized, smVars, guardVars, mtVars, briefVars, docVars, pkgVars>>

\* It stores the state transition_to returned and lets go of the lock.
CallerStore(c) ==
    /\ cpc[c] = "called"
    /\ Len(dhist) < MaxHist
    /\ deliverable' = [deliverable EXCEPT !.state = cnew[c]]
    /\ dhist' = Append(dhist, cnew[c])
    /\ cpc' = [cpc EXCEPT ![c] = "idle"]
    /\ lock' = IF lock = c THEN "-" ELSE lock
    /\ UNCHANGED <<cread, cnew, serialized, dcall, dres, session, scall, sres, shist,
                   guardVars, mtVars, briefVars, docVars, pkgVars>>

\* Two callers of one orchestrator, serialized per entity or not.
InitCallersSpec ==
    /\ InitSM
    /\ session.agent_class = Task
    /\ InitGuard
    /\ write_scope = WriteScope_None
    /\ target_path = <<>>
    /\ InitThreads
    /\ targs = [t \in Threads |-> NoThreadArgs]
    /\ InitBrief
    /\ binput = JNull
    /\ InitCallers
    /\ serialized \in BOOLEAN
    /\ InitPackageIdle
    /\ InitDocument
    /\ document.content_hash = "sha256:0a"
    /\ document.created_by = "human:ann"
    /\ document.created_at = 0

NextCallers ==
    \/ \E c \in Callers : CallerRead(c)
    \/ \E c \in Callers, target \in DeliverableState : CallerTransition(c, target)
    \/ \E c \in Callers : CallerStore(c)

SpecCallers == InitCallersSpec /\ [][NextCallers]_vars

\* ---------------------------------------------------- the Document entity
\* update_content with a new hash and an actor, at the time Utc::now() gives.
DocumentUpdateContent ==
    /\ \E new_hash \in ContentHashes, updated_by \in ActorIds, now \in Times :
         /\ doccall' = [new_hash |-> new_hash, updated_by |-> updated_by, now |-> now]
         /\ document' = Document_update_content(document, new_hash, updated_by, now)
    /\ docprev' = document
    /\ UNCHANGED <<dochist, smVars, guardVars, mtVars, briefVars, callerVars, pkgVars>>

InitDocumentSpec ==
    /\ InitSM
    /\ session.agent_class = Task
    /\ InitGuard
    /\ write_scope = WriteScope_None
    /\ target_path = <<>>
    /\ InitThreads
    /\ targs = [t \in Threads |-> NoThreadArgs]
    /\ InitBrief
    /\ binput = JNull
    /\ InitCallers
    /\ serialized = TRUE
    /\ InitPackageIdle
    /\ InitDocument

NextDocument == DocumentUpdateContent

SpecDocument == InitDocumentSpec /\ [][NextDocument]_vars

\* A caller asks can_transition_to and, when it says yes, stores the target in
\* the document's state field.
DocumentTransition(target) ==
    /\ Len(dochist) < MaxHist
    /\ DocumentState_can_transition_to(document.state, target)
    /\ document' = [document EXCEPT !.state = target]
    /\ dochist' = Append(dochist, target)
    /\ UNCHANGED <<doccall, docprev, smVars, guardVars, mtVars, briefVars, callerVars, pkgVars>>

NextDocumentState ==
    \/ \E target \in DocumentState : DocumentTransition(target)
    \/ DocumentUpdateContent

SpecDocumentState == InitDocumentSpec /\ [][NextDocumentState]_vars

\* ------------------------------------------------------ the Package entity
\* The builder calls that can follow Package::new.
PackageWithLegacyId ==
    /\ \E num \in PackageNumbers : package' = Package_with_legacy_id(package, num)
    /\ UNCHANGED <<smVars, guardVars, mtVars, briefVars, callerVars, docVars>>

PackageWithScopeItems ==
    /\ \E items \in ScopeItemLists : package' = Package_with_scope_items(package, items)
    /\ UNCHANGED <<smVars, guardVars, mtVars, briefVars, callerVars, docVars>>

\* A package as Package::new returns it, for every label and every pair of
\* identifiers the generator can hand to the two PackageId::new() calls.
InitPackage ==
    package \in { Package_new("proj:1", label, folder_ulid, id_ulid) :
                    label \in Labels, folder_ulid \in Ulids, id_ulid \in Ulids }

InitPackageSpec ==
    /\ InitSM
    /\ session.agent_class = Task
    /\ InitGuard
    /\ write_scope = WriteScope_None
    /\ target_path = <<>>
    /\ InitThreads
    /\ targs = [t \in Threads |-> NoThreadArgs]
    /\ InitBrief
    /\ binput = JNull
    /\ InitCallers
    /\ serialized = TRUE
    /\ InitDocument
    /\ document.content_hash = "sha256:0a"
    /\ document.created_by = "human:ann"
    /\ document.created_at = 0
    /\ InitPackage

NextPackage ==
    \/ PackageWithLegacyId
    \/ PackageWithScopeItems

SpecPackage == InitPackageSpec /\ [][NextPackage]_vars

\* ================================================================== claims
\* The transition tables as the specification lists them.
DeliverableTable ==
    { <<Open, Initialized>>, <<Initialized, SemanticReady>>,
      <<Initialized, InProgress>>, <<SemanticReady, InProgress>>,
      <<InProgress, Checking>>, <<Checking, InProgress>>, <<Checking, Issued>> }

SessionTable ==
    ({<<Created, Active>>, <<Active, Completed>>, <<Active, Failed>>} \X AgentClass)
    \cup ({<<Active, Paused>>, <<Paused, Active>>,
           <<Paused, Completed>>, <<Paused, Failed>>} \X {Persona})
    \cup ({<<s, Cancelled>> : s \in {Created, Active, Paused}} \X AgentClass)

\* The names an error value is expected to carry.
DeliverableStateName ==
    [s \in DeliverableState |->
        CASE s = "OPEN" -> "Open"
          [] s = "INITIALIZED" -> "Initialized"
          [] s = "SEMANTIC_READY" -> "SemanticReady"
          [] s = "IN_PROGRESS" -> "InProgress"
          [] s = "CHECKING" -> "Checking"
          [] s = "ISSUED" -> "Issued"]

DeliverableCalled == dcall # NoCall
SessionCalled == scall # NoCall

\* C1: a Task-class session never reaches Paused: can_transition_to(Paused,
\* Task) is false from every source state, every attempt of a Task session to
\* pause fails, and no state of a Task session's history is Paused.
C1_TaskNeverPaused ==
    /\ \A s \in SessionState : ~SessionState_can_transition_to(s, Paused, Task)
    /\ session.agent_class = Task =>
         /\ \A i \in 1..Len(shist) : shist[i] # Paused
         /\ session.state # Paused
         /\ (SessionCalled /\ scall.target = Paused) => ~sres.ok

C1_Witness ==
    /\ session.agent_class = Task
    /\ scall = [self |-> Active, target |-> Paused]
    /\ ~sres.ok
    /\ session.state = Active

\* C2 (as claimed): every change of an AgentSession's state is a transition
\* that can_transition_to permits for the session's agent_class.
C2_ClassGatesEveryStateChange ==
    [][session'.state # session.state =>
         SessionState_can_transition_to(session.state, session'.state,
                                        session.agent_class)]_vars

\* The place a write to `path` lands: the resolved path when it exists, else
\* the new entry under the resolved parent directory; None when the operating
\* system cannot resolve the path at all.
Denotes(f, path) ==
    LET c == Path_canonicalize(f, path) IN
    IF c # None THEN c
    ELSE IF path = <<>> \/ path[Len(path)] = DotDot THEN None
    ELSE LET par == Path_canonicalize(f, Parent(path)) IN
         IF par = None THEN None
         ELSE IF NodeKind(f, par[1]) # "dir" THEN None
         ELSE IF NodeKind(f, Append(par[1], path[Len(path)])) # "absent" THEN None
         ELSE Some(Append(par[1], path[Len(path)]))

\* The place the scope root denotes; the root as written when it does not exist.
ScopeRootLocation(f, root) ==
    LET r == Denotes(f, root) IN IF r # None THEN r[1] ELSE root

\* C3 (as claimed): for DeliverableLocal and ToolRootOnly, whenever
\* validate_write returned Allowed, the place the target path denotes in the
\* filesystem of the call (".." and symbolic links resolved, the path existing
\* or not) lies inside the place the scope root denotes.
C3_AllowedWriteStaysInScope ==
    (/\ gcalled
     /\ write_scope.type \in {"DELIVERABLE_LOCAL", "TOOL_ROOT_ONLY"}
     /\ gres.allowed)
    => LET loc == Denotes(gfs, target_path) IN
       loc # None =>
         Path_starts_with(loc[1], ScopeRootLocation(gfs, write_scope.path))

\* C4: DeliverableState::can_transition_to is true for exactly the seven
\* pairs of the table and false for the other 29 ordered pairs, and a
\* transition_to call succeeds exactly on a pair of the table.
C4_DeliverableTableExact ==
    /\ \A a, b \in DeliverableState :
          DeliverableState_can_transition_to(a, b) <=> <<a, b>> \in DeliverableTable
    /\ Cardinality({pr \in DeliverableState \X DeliverableState :
                      ~DeliverableState_can_transition_to(pr[1], pr[2])}) = 29
    /\ DeliverableCalled =>
          (dres.ok <=> <<dcall.self, dcall.target>> \in DeliverableTable)

C4_Witness ==
    /\ dcall = [self |-> Checking, target |-> InProgress]
    /\ dres.ok
    /\ deliverable.state = InProgress

\* C5: a transition_to call on a pair outside the table fails with
\* InvalidStateTransition{entity: "Deliverable", from, to} naming the current
\* and the requested state and leaves the stored state unchanged; on a pair of
\* the table it returns exactly the target, which becomes the stored state.
C5_DeliverableTransitionResult ==
    DeliverableCalled =>
      IF <<dcall.self, dcall.target>> \in DeliverableTable
      THEN /\ dres = Ok(dcall.target)
           /\ deliverable.state = dcall.target
      ELSE /\ ~dres.ok
           /\ dres.value = NoValue
           /\ dres.err = [ kind |-> "InvalidStateTransition",
                           entity |-> "Deliverable",
                           from |-> DeliverableStateName[dcall.self],
                           to |-> DeliverableStateName[dcall.target] ]
           /\ deliverable.state = dcall.self

C5_Witness ==
    /\ dcall = [self |-> Initialized, target |-> Issued]
    /\ ~dres.ok
    /\ dres.err.from = "Initialized" /\ dres.err.to = "Issued"
    /\ deliverable.state = Initialized

\* C6: Issued is the only terminal deliverable state and it is absorbing:
\* is_terminal holds of Issued alone, transition_to from Issued fails for
\* every target, and Issued is never followed by another state.
C6_IssuedAbsorbing ==
    /\ \A s \in DeliverableState : DeliverableState_is_terminal(s) <=> s = Issued
    /\ \A t \in DeliverableState : ~DeliverableState_transition_to(Issued, t).ok
    /\ \A i \in 1..(Len(dhist) - 1) : dhist[i] # Issued
    /\ (DeliverableCalled /\ dcall.self = Issued) =>
          ~dres.ok /\ deliverable.state = Issued

C6_Witness ==
    /\ dhist[Len(dhist)] = Issued
    /\ dcall = [self |-> Issued, target |-> InProgress]
    /\ deliverable.state = Issued

\* C7: SessionState::can_transition_to is true exactly for the triples of the
\* session table (the pause arms for Persona only, cancellation from every
\* non-terminal state) and a transition_to call succeeds exactly on them.
C7_SessionTableExact ==
    /\ \A s, t \in SessionState : \A c \in AgentClass :
          SessionState_can_transition_to(s, t, c) <=> <<<<s, t>>, c>> \in SessionTable
    /\ SessionCalled =>
          (sres.ok <=> <<<<scall.self, scall.target>>, session.agent_class>> \in SessionTable)

C7_Witness ==
    /\ session.agent_class = Persona
    /\ scall = [self |-> Paused, target |-> Completed]
    /\ sres.ok
    /\ session.state = Completed

\* C8: session terminal states are absorbing: is_terminal holds exactly of
\* Completed, Failed and Cancelled, is_active exactly of Active, every
\* transition_to from a terminal state fails for both classes, and a terminal
\* state is never followed by another state.
C8_SessionTerminalAbsorbing ==
    /\ \A s \in SessionState :
          /\ SessionState_is_terminal(s) <=> s \in {Completed, Failed, Cancelled}
          /\ SessionState_is_active(s) <=> s = Active
    /\ \A s \in {Completed, Failed, Cancelled}, t \in SessionState, c \in AgentClass :
          ~SessionState_transition_to(s, t, c).ok
    /\ \A i \in 1..(Len(shist) - 1) : shist[i] \notin {Completed, Failed, Cancelled}
    /\ (SessionCalled /\ scall.self \in {Completed, Failed, Cancelled}) =>
          ~sres.ok /\ session.state = scall.self

C8_Witness ==
    /\ session.state = Failed
    /\ scall = [self |-> Failed, target |-> Active]
    /\ ~sres.ok

\* C9: cancellation is legal from Created, Active and Paused and illegal from
\* Completed, Failed and Cancelled, for both agent classes.
C9_CancellationFromNonTerminal ==
    /\ \A c \in AgentClass :
          /\ \A s \in {Created, Active, Paused} :
                SessionState_can_transition_to(s, Cancelled, c)
          /\ \A s \in {Completed, Failed, Cancelled} :
                ~SessionState_can_transition_to(s, Cancelled, c)
    /\ (SessionCalled /\ scall.target = Cancelled) =>
          IF scall.self \in {Created, Active, Paused}
          THEN sres = Ok(Cancelled) /\ session.state = Cancelled
          ELSE ~sres.ok /\ session.state = scall.self

C9_Witness ==
    /\ scall = [self |-> Paused, target |-> Cancelled]
    /\ sres.ok
    /\ session.state = Cancelled

\* C10: a Persona session in Active can pause, and in Paused can resume,
\* complete or fail: each of these transition_to calls succeeds whenever the
\* session is in the source state, however often it has paused before.
C10_PersonaPauseResume ==
    session.agent_class = Persona =>
      /\ session.state = Active =>
            SessionState_transition_to(Active, Paused, Persona) = Ok(Paused)
      /\ session.state = Paused =>
            \A t \in {Active, Completed, Failed} :
                SessionState_transition_to(Paused, t, Persona) = Ok(t)
      /\ (SessionCalled /\ <<scall.self, scall.target>> \in
             {<<Active, Paused>>, <<Paused, Active>>,
              <<Paused, Completed>>, <<Paused, Failed>>}) =>
            sres = Ok(scall.target) /\ session.state = scall.target

C10_Witness ==
    /\ session.agent_class = Persona
    /\ Len(shist) >= 6
    /\ SubSeq(shist, 2, 6) = <<Active, Paused, Active, Paused, Active>>

\* The names a session error value is expected to carry.
SessionStateName ==
    [s \in SessionState |->
        CASE s = "CREATED" -> "Created"
          [] s = "ACTIVE" -> "Active"
          [] s = "PAUSED" -> "Paused"
          [] s = "COMPLETED" -> "Completed"
          [] s = "FAILED" -> "Failed"
          [] s = "CANCELLED" -> "Cancelled"]

\* C11: SessionState::transition_to returns Ok(target) exactly when
\* can_transition_to(target, class) holds of the current state; otherwise it
\* fails with InvalidStateTransition{entity: "AgentSession", from: the current
\* state, to: the requested state} and yields no new state.
C11_SessionTransitionResult ==
    SessionCalled =>
      IF SessionState_can_transition_to(scall.self, scall.target, session.agent_class)
      THEN /\ sres = Ok(scall.target)
           /\ session.state = scall.target
      ELSE /\ ~sres.ok
           /\ sres.value = NoValue
           /\ sres.err = [ kind |-> "InvalidStateTransition",
                           entity |-> "AgentSession",
                           from |-> SessionStateName[scall.self],
                           to |-> SessionStateName[scall.target] ]
           /\ session.state = scall.self

C11_Witness ==
    /\ scall = [self |-> Created, target |-> Completed]
    /\ ~sres.ok
    /\ sres.err.entity = "AgentSession"
    /\ sres.err.from = "Created" /\ sres.err.to = "Completed"
    /\ session.state = Created

\* C12: can_pause(class) is true only for state Active with class Persona,
\* and for every state and class it agrees with can_transition_to(Paused,
\* class); a pause attempt succeeds exactly where can_pause said so.
C12_CanPauseAgrees ==
    /\ \A s \in SessionState, c \in AgentClass :
          /\ SessionState_can_pause(s, c) <=> (s = Active /\ c = Persona)
          /\ SessionState_can_pause(s, c) <=> SessionState_can_transition_to(s, Paused, c)
    /\ (SessionCalled /\ scall.target = Paused) =>
          (sres.ok <=> SessionState_can_pause(scall.self, session.agent_class))

C12_Witness ==
    /\ session.agent_class = Persona
    /\ scall = [self |-> Active, target |-> Paused]
    /\ sres = Ok(Paused)
    /\ session.state = Paused


\* `base` is a leading run of whole components of `path`.
LeadingComponents(base, path) ==
    /\ Len(base) <= Len(path)
    /\ \A i \in 1..Len(base) : path[i] = base[i]

\* The containment check as the specification words it: the prefix test on
\* the canonical forms when both paths resolve, on the paths as given otherwise.
Contained(f, target, root) ==
    LET t == Path_canonicalize(f, target)
        r == Path_canonicalize(f, root) IN
    IF t # None /\ r # None THEN LeadingComponents(r[1], t[1])
    ELSE LeadingComponents(root, target)

GuardCalledWith(types) == gcalled /\ write_scope.type \in types

\* C13: under WriteScope::None every target path, the workspace root
\* included and whatever the filesystem holds, is Denied by validate_write,
\* and ensure_allowed returns a WriteViolation error.
C13_NoneDeniesEveryPath ==
    GuardCalledWith({"NONE"}) =>
      /\ ~gres.allowed
      /\ gres.violation =
           WriteViolation(target_path, "None", "Agent has no write permission")
      /\ eres # NoEnsure => (~eres.ok /\ eres.err.kind = "WriteViolation")

C13_Witness ==
    /\ GuardCalledWith({"NONE"})
    /\ target_path = <<>>
    /\ NodeKind(gfs, <<"d">>) = "dir"
    /\ eres # NoEnsure
    /\ ~eres.ok
    /\ eres.err.kind = "WriteViolation"

\* C14: under DeliverableLocal and ToolRootOnly validate_write returns
\* Allowed exactly when the target path is contained within the scope root
\* (containment being the check of the specification); a path inside the
\* root is Allowed, a path of a sibling deliverable is Denied, and the reason
\* of a denial names the scope root path.
C14_RootedScopeContainment ==
    GuardCalledWith({"DELIVERABLE_LOCAL", "TOOL_ROOT_ONLY"}) =>
      /\ gres.allowed <=> Contained(gfs, target_path, write_scope.path)
      /\ (write_scope.path = <<"d">> /\ target_path = <<"d", "f">>) => gres.allowed
      /\ (write_scope.path = <<"e">> /\ target_path = <<"e", "f">>) => gres.allowed
      /\ (write_scope.path = <<"d">> /\ target_path = <<"e", "f">>) => ~gres.allowed
      /\ (write_scope.path = <<"e">> /\ target_path = <<"d", "f">>) => ~gres.allowed
      /\ ~gres.allowed =>
           /\ gres.violation.target_path = target_path
           /\ gres.violation.reason =
                (IF write_scope.type = "DELIVERABLE_LOCAL"
                 THEN "Path is outside deliverable folder: "
                 ELSE "Path is outside tool root: ")
                \o (CASE write_scope.path = <<"d">> -> "/d"
                      [] write_scope.path = <<"e">> -> "/e"
                      [] write_scope.path = <<"d", "e">> -> "/d/e")

C14_Witness ==
    /\ GuardCalledWith({"DELIVERABLE_LOCAL"})
    /\ write_scope.path = <<"d">>
    /\ target_path = <<"e", "f">>
    /\ NodeKind(gfs, <<"d">>) = "dir"
    /\ NodeKind(gfs, <<"e", "f">>) = "file"
    /\ ~gres.allowed
    /\ gres.violation.reason = "Path is outside deliverable folder: /d"

\* C15: under RepoMetadataOnly validate_write returns Allowed exactly when
\* the target path equals an entry of allowed_files; the same file name in
\* another directory, a path beneath a listed entry, and every path under an
\* empty list are Denied.
C15_MetadataExactMatch ==
    GuardCalledWith({"REPO_METADATA_ONLY"}) =>
      /\ gres.allowed <=>
           target_path \in {write_scope.allowed_files[i] :
                              i \in DOMAIN write_scope.allowed_files}
      /\ write_scope.allowed_files = <<>> => ~gres.allowed
      /\ (/\ write_scope.allowed_files = << <<"d", "f">> >>
          /\ target_path \in {<<"e", "f">>, <<"d", "f", "f">>, <<"d", "f", "e">>})
         => ~gres.allowed
      /\ ~gres.allowed => gres.violation.scope = "RepoMetadataOnly"

C15_Witness ==
    /\ GuardCalledWith({"REPO_METADATA_ONLY"})
    /\ write_scope.allowed_files = << <<"d", "f">> >>
    /\ target_path = <<"d", "f", "f">>
    /\ ~gres.allowed

\* C16: is_within is the prefix test on the two canonical forms when target
\* and scope root both resolve, and the prefix test on the two paths as given
\* when either does not resolve; the canonical form of the one that resolved
\* is then not used.
C16_ContainmentCheck ==
    GuardCalledWith({"DELIVERABLE_LOCAL", "TOOL_ROOT_ONLY"}) =>
      LET c == Path_canonicalize(gfs, target_path)
          p == Path_canonicalize(gfs, write_scope.path)
          within == WriteGuard_is_within(gfs, target_path, write_scope.path) IN
      /\ (c # None /\ p # None) => (within <=> LeadingComponents(p[1], c[1]))
      /\ (c = None \/ p = None) =>
           (within <=> LeadingComponents(write_scope.path, target_path))
      /\ gres.allowed <=> within

\* The root resolves to /e through the link, the target does not resolve, and
\* the answer is the one of the paths as given.
C16_Witness ==
    /\ GuardCalledWith({"TOOL_ROOT_ONLY"})
    /\ write_scope.path = <<"d", "e">>
    /\ target_path = <<"d", "e", "f">>
    /\ Path_canonicalize(gfs, write_scope.path) = Some(<<"e">>)
    /\ Path_canonicalize(gfs, target_path) = None
    /\ gres.allowed

\* C17: ensure_allowed returns Ok exactly when validate_write returns
\* Allowed, and otherwise the WriteViolation error with the target_path,
\* scope and reason of the denial; the target_path is the path passed in.
C17_EnsureAllowedWraps ==
    eres # NoEnsure =>
      LET v == WriteGuard_validate_write(gfs, write_scope, target_path) IN
      /\ eres.ok <=> v.allowed
      /\ eres.ok => eres = EnsureOk
      /\ ~eres.ok =>
           /\ eres.err = [ kind |-> "WriteViolation",
                           target_path |-> v.violation.target_path,
                           scope |-> v.violation.scope,
                           reason |-> v.violation.reason ]
           /\ eres.err.target_path = target_path

\* A denied target that resolves elsewhere is reported as it was passed in.
C17_Witness ==
    /\ eres # NoEnsure
    /\ ~eres.ok
    /\ write_scope = WriteScope_DeliverableLocal(<<"d">>)
    /\ target_path = <<"d", "e", "f">>
    /\ Path_canonicalize(gfs, target_path) = Some(<<"e", "f">>)
    /\ eres.err.target_path = <<"d", "e", "f">>
    /\ eres.err.reason = "Path is outside deliverable folder: /d"


\* C18: the guard keeps nothing between calls: with validate_write calls of
\* several threads interleaved with each other and with filesystem changes,
\* the decision a call returns is the one its own scope and target path have
\* under the path resolution the filesystem gave during that call, whatever
\* the other calls were given or answered.
C18_GuardStateless ==
    \A t \in Threads :
      tpc[t] = "done" =>
        LET scope == targs[t].scope
            target == targs[t].target_path IN
        IF scope.type \in RootedScopeTypes
        THEN LET c == Path_canonicalize(tfsc[t], target)
                 p == Path_canonicalize(tfsp[t], scope.path) IN
             /\ tres[t].allowed <=>
                  IF c # None /\ p # None THEN LeadingComponents(p[1], c[1])
                  ELSE LeadingComponents(scope.path, target)
             /\ tfsc[t] = tfsp[t] =>
                  tres[t] = WriteGuard_validate_write(tfsp[t], scope, target)
             /\ ~tres[t].allowed => tres[t].violation.target_path = target
        ELSE \A f \in {EmptyFs, fs} :
               tres[t] = WriteGuard_validate_write(f, scope, target)

\* Two finished calls with the same arguments and different decisions: the
\* later one met a filesystem in which the link /d/e had appeared.
C18_Witness ==
    /\ tpc["t1"] = "done"
    /\ tpc["t2"] = "done"
    /\ targs["t1"] = targs["t2"]
    /\ targs["t1"].scope = WriteScope_DeliverableLocal(<<"d">>)
    /\ tres["t1"].allowed
    /\ ~tres["t2"].allowed
    /\ Path_canonicalize(tfsc["t1"], targs["t1"].target_path) = None
    /\ Path_canonicalize(tfsc["t2"], targs["t2"].target_path) = Some(<<"e", "f">>)
    /\ fs = tfsp["t2"]


ParseCalled == pres # NoBriefResult
ValidateCalled == vagent # "-"
EmptyTaskDefinition == BriefErr(DomainError_InvalidBrief("task_definition cannot be empty"))

\* C19 (as claimed): parse fails with InvalidBrief when the task_definition
\* of the input is missing, is not a string, or is the empty string, and
\* every brief parse returns has a non-empty task_definition.
C19_ParseRequiresTaskDefinition ==
    ParseCalled =>
      LET td == Value_get(binput, "task_definition") IN
      /\ (td = None \/ td[1].t # "string" \/ td[1] = JString("")) =>
           (~pres.ok /\ pres.err # None /\ pres.err[1].kind = "InvalidBrief")
      /\ pres.ok => pres.value[1].task_definition # ""

\* C20: for a brief with an empty task_definition validate fails with the
\* InvalidBrief reason about task_definition, whatever the agent name (known
\* or not) and whatever brief.inputs holds; no agent's missing-key reason
\* comes before it.
C20_EmptyTaskDefinitionFirst ==
    (ValidateCalled /\ pres.value[1].task_definition = "") =>
      /\ vres = EmptyTaskDefinition
      /\ \A agent_name \in AgentNames :
           BriefParser_validate(pres.value[1], agent_name) = EmptyTaskDefinition

\* An agent whose required key is missing as well.
C20_Witness ==
    /\ ValidateCalled
    /\ vagent = "4_DOCUMENTS"
    /\ pres.value[1].task_definition = ""
    /\ Value_get(pres.value[1].inputs, "deliverable_id") = None
    /\ vres = EmptyTaskDefinition


\* The keys of which an agent needs at least one, as the specification
\* lists them, and the reason it is to report when none is there.
RequiredKeys ==
    [ a \in KnownAgents |->
        CASE a = "4_DOCUMENTS" -> {"deliverable_id"}
          [] a = "CHIRALITY_FRAMEWORK" -> {"deliverable_id"}
          [] a = "PREPARATION" -> {"package_id", "project_id"}
          [] a = "DEPENDENCIES" -> {"deliverable_id", "package_id", "project_id"}
          [] a = "AGGREGATION" -> {"project_id"} ]

MissingKeyReason ==
    [ a \in KnownAgents |->
        CASE a = "4_DOCUMENTS" -> "4_DOCUMENTS requires deliverable_id in inputs"
          [] a = "CHIRALITY_FRAMEWORK" ->
                 "CHIRALITY_FRAMEWORK requires deliverable_id in inputs"
          [] a = "PREPARATION" ->
                 "PREPARATION requires package_id or project_id in inputs"
          [] a = "DEPENDENCIES" ->
                 "DEPENDENCIES requires a scope (deliverable_id, package_id, or project_id)"
          [] a = "AGGREGATION" -> "AGGREGATION requires project_id in inputs" ]

\* The keys an inputs value holds; none when it is no object.
KeysOf(inputs) == IF inputs.t = "object" THEN DOMAIN inputs.fields ELSE {}

ValidatedBrief == pres.value[1]

C22_UnknownAgentPasses ==
    (/\ ValidateCalled
     /\ vagent \notin {"4_DOCUMENTS", "PREPARATION", "CHIRALITY_FRAMEWORK",
                       "DEPENDENCIES", "AGGREGATION"}
     /\ ValidatedBrief.task_definition # "")
    => vres = UnitOk

\* A name that differs from a known one by case only, with null inputs.
C22_Witness ==
    /\ ValidateCalled
    /\ vagent = "4_documents"
    /\ ValidatedBrief.task_definition = "X"
    /\ ValidatedBrief.inputs = JNull
    /\ vres = UnitOk


\* The strings among the entries, in the order of the entries.
RECURSIVE StringsOf(_)
StringsOf(items) ==
    IF items = <<>> THEN <<>>
    ELSE IF Head(items).t = "string"
    THEN <<Head(items).s>> \o StringsOf(Tail(items))
    ELSE StringsOf(Tail(items))

ExpectedStrings(input, key) ==
    IF key \notin KeysOf(input) THEN <<>>
    ELSE IF input.fields[key].t # "array" THEN <<>>
    ELSE StringsOf(input.fields[key].items)

\* C23: parse of an input holding task_definition alone yields an empty
\* scope_description, empty output_contract, constraints and
\* success_criteria, and the null inputs value; each of the three array
\* members yields the empty sequence when it is missing or is no array, and
\* otherwise its string entries in their order, the other entries dropped.
C23_ParseDefaults ==
    (ParseCalled /\ pres.ok) =>
      LET brief == pres.value[1] IN
      /\ brief.output_contract = ExpectedStrings(binput, "output_contract")
      /\ brief.constraints = ExpectedStrings(binput, "constraints")
      /\ brief.success_criteria = ExpectedStrings(binput, "success_criteria")
      /\ "scope_description" \notin KeysOf(binput) => brief.scope_description = ""
      /\ "inputs" \notin KeysOf(binput) => brief.inputs = JNull
      /\ KeysOf(binput) = {"task_definition"} =>
           brief = [ task_definition |-> binput.fields.task_definition.s,
                     scope_description |-> "",
                     output_contract |-> <<>>,
                     constraints |-> <<>>,
                     success_criteria |-> <<>>,
                     inputs |-> JNull ]

\* A non-string entry between two strings is dropped and the order is kept.
C23_Witness ==
    /\ ParseCalled
    /\ pres.ok
    /\ "constraints" \in KeysOf(binput)
    /\ binput.fields.constraints = JArray(<<JString("b"), JNumber(7), JString("a")>>)
    /\ pres.value[1].constraints = <<"b", "a">>
    /\ pres.value[1].output_contract = <<>>


C25_SerializedTransitions ==
    serialized =>
      /\ \A i \in 1..(Len(dhist) - 1) :
            /\ <<dhist[i], dhist[i + 1]>> \in DeliverableTable
            /\ dhist[i] # Issued
      /\ deliverable.state = dhist[Len(dhist)]
      /\ \A c \in Callers : cpc[c] # "idle" => (lock = c /\ cread[c] = deliverable.state)

\* Without the serialization both callers read Checking, both calls succeed,
\* and the stored state goes from Issued to InProgress.
C25_Witness ==
    /\ ~serialized
    /\ Len(dhist) >= 2
    /\ dhist[Len(dhist) - 1] = Issued
    /\ dhist[Len(dhist)] = InProgress
    /\ deliverable.state = InProgress
    /\ \E c \in Callers : cread[c] = Checking /\ cnew[c] = InProgress


\* What an operation is to leave alone.
SameIdentity(a, b) ==
    /\ a.agent_class = b.agent_class
    /\ a.agent_type = b.agent_type
    /\ a.agent_name = b.agent_name
    /\ a.scope = b.scope
    /\ a.write_scope = b.write_scope
    /\ a.brief = b.brief

\* C26: new_task creates a session of class Task in state Created with a
\* brief, new_persona one of class Persona in state Created without a brief,
\* and with_branch, add_output, complete and fail leave agent_class,
\* agent_type, scope, write_scope and brief as they were, so the class a
\* session was created with is the class it has for life.
C26_AgentClassFixed ==
    /\ LET t == AgentSession_new_task("4_DOCUMENTS", TheBrief, TheScope, TheWriteScope, 0)
           p == AgentSession_new_persona("ORCHESTRATOR", Manager, TheScope,
                                         TheWriteScope, 0) IN
       /\ t.agent_class = Task /\ t.state = Created /\ t.brief = Some(TheBrief)
       /\ p.agent_class = Persona /\ p.state = Created /\ p.brief = None
       /\ shist[1] = Created
       /\ SameIdentity(session, IF session.agent_name = "4_DOCUMENTS" THEN t ELSE p)
    /\ \A b \in Branches : SameIdentity(AgentSession_with_branch(session, b), session)
    /\ \A o \in SessionOutputs : SameIdentity(AgentSession_add_output(session, o), session)
    /\ \A now \in Times :
         /\ SameIdentity(AgentSession_complete(session, now), session)
         /\ SameIdentity(AgentSession_fail(session, now), session)

\* A Task session after with_branch, add_output and complete.
C26_Witness ==
    /\ session.agent_class = Task
    /\ session.brief = Some(TheBrief)
    /\ session.state = Completed
    /\ session.completed_at # None
    /\ session.outputs # <<>>
    /\ session.git_branch # None


\* Everything of a deliverable but the field named.
SameBut(a, b, field) ==
    \A k \in DOMAIN a : k # field => a[k] = b[k]

\* C27: a Deliverable is created in state Open with no documents; its state
\* is the one the last successful transition_to gave it, for with_legacy_id,
\* with_type, with_discipline, with_responsible_party and add_document leave
\* the state alone; add_document puts exactly one DocumentRef at the end of
\* documents and keeps the earlier ones in their order.
C27_DeliverableFrame ==
    /\ LET d == Deliverable_new("PKG-001", "Pump datasheet", <<"p", "d">>) IN
       d.state = Open /\ d.documents = <<>>
    /\ dhist[1] = Open
    /\ deliverable.state = dhist[Len(dhist)]
    /\ \A n \in LegacyNumbers :
         SameBut(Deliverable_with_legacy_id(deliverable, n[1], n[2]), deliverable, "id")
    /\ \A t \in DeliverableTypes :
         SameBut(Deliverable_with_type(deliverable, t), deliverable, "deliverable_type")
    /\ \A d \in Disciplines :
         SameBut(Deliverable_with_discipline(deliverable, d), deliverable, "discipline")
    /\ \A party \in Parties :
         SameBut(Deliverable_with_responsible_party(deliverable, party), deliverable,
                 "responsible_party")
    /\ \A doc_ref \in DocRefs :
         LET d == Deliverable_add_document(deliverable, doc_ref)
             n == Len(deliverable.documents) IN
         /\ SameBut(d, deliverable, "documents")
         /\ Len(d.documents) = n + 1
         /\ d.documents[n + 1] = doc_ref
         /\ \A i \in 1..n : d.documents[i] = deliverable.documents[i]

\* A deliverable under work with its attributes set and two documents.
C27_Witness ==
    /\ deliverable.state = InProgress
    /\ dhist = <<Open, Initialized, InProgress>>
    /\ deliverable.id = "DEL-03.12"
    /\ deliverable.deliverable_type = Some("Pump")
    /\ deliverable.discipline = Some("Mechanical")
    /\ deliverable.responsible_party = Some("Ann")
    /\ Len(deliverable.documents) = 2
    /\ deliverable.documents[1].id = "doc:2"
    /\ deliverable.documents[2].id = "doc:1"


\* The happy path, without and with the SemanticReady step.
HappyPaths ==
    { <<Open, Initialized, InProgress, Checking, Issued>>,
      <<Open, Initialized, SemanticReady, InProgress, Checking, Issued>> }

\* C28: from Open the transition_to calls Initialized, InProgress, Checking,
\* Issued succeed one after the other, with SemanticReady between Initialized
\* and InProgress or without it, and the final state Issued is terminal.
C28_HappyPath ==
    \A path \in HappyPaths :
      /\ \A k \in 1..(Len(path) - 1) :
           dhist = SubSeq(path, 1, k) =>
             /\ deliverable.state = path[k]
             /\ DeliverableState_transition_to(deliverable.state, path[k + 1])
                  = Ok(path[k + 1])
      /\ dhist = path =>
           /\ deliverable.state = Issued
           /\ DeliverableState_is_terminal(deliverable.state)

C28_Witness ==
    /\ dhist = <<Open, Initialized, InProgress, Checking, Issued>>
    /\ dcall = [self |-> Checking, target |-> Issued]
    /\ dres = Ok(Issued)
    /\ DeliverableState_is_terminal(deliverable.state)

\* C29: allows_work is true for Initialized, SemanticReady and InProgress and
\* false for Open, Checking and Issued; no terminal state allows work, and a
\* new deliverable allows none until it is initialized.
C29_AllowsWorkExact ==
    /\ \A s \in DeliverableState :
         /\ DeliverableState_allows_work(s) <=>
              s \in {"INITIALIZED", "SEMANTIC_READY", "IN_PROGRESS"}
         /\ DeliverableState_is_terminal(s) => ~DeliverableState_allows_work(s)
    /\ deliverable.state \in {Open, Checking, Issued} =>
         ~DeliverableState_allows_work(deliverable.state)
    /\ dhist = <<Open>> => ~DeliverableState_allows_work(deliverable.state)
    /\ Len(dhist) = 2 => DeliverableState_allows_work(deliverable.state)

\* Back in work after a rejected check.
C29_Witness ==
    /\ Len(dhist) >= 5
    /\ dhist[Len(dhist) - 1] = Checking
    /\ deliverable.state = InProgress
    /\ DeliverableState_allows_work(deliverable.state)


DocumentCalled == doccall # NoDocCall

\* C30: update_content sets content_hash to the new hash, updated_by to the
\* actor given and updated_at to the current time, and leaves id,
\* deliverable_id, document_type, file_path, state, created_at and created_by
\* as they were; a new Document is in Draft with updated_at = created_at and
\* updated_by = created_by.
C30_UpdateContentFrame ==
    /\ ~DocumentCalled =>
         /\ document.state = "DRAFT"
         /\ document.updated_at = document.created_at
         /\ document.updated_by = document.created_by
    /\ DocumentCalled =>
         /\ document.content_hash = doccall.new_hash
         /\ document.updated_by = doccall.updated_by
         /\ document.updated_at = doccall.now
         /\ \A k \in {"id", "deliverable_id", "document_type", "file_path",
                      "state", "created_at", "created_by"} :
              document[k] = docprev[k]
         /\ DOMAIN document = DOMAIN docprev

\* Another actor replaces the content at a later time.
C30_Witness ==
    /\ DocumentCalled
    /\ document.content_hash # docprev.content_hash
    /\ document.updated_by # document.created_by
    /\ document.updated_at > document.created_at
    /\ document.state = "DRAFT"

\* The permitted document transitions as the specification lists them.
DocumentTable ==
    { <<DocumentState_Draft, DocumentState_Reviewed>>,
      <<DocumentState_Reviewed, DocumentState_Draft>>,
      <<DocumentState_Reviewed, DocumentState_Issued>> }

\* C31: DocumentState::can_transition_to is true exactly for Draft -> Reviewed,
\* Reviewed -> Draft and Reviewed -> Issued; along any sequence of permitted
\* transitions from Draft a document is issued only directly from Reviewed,
\* never from Draft, and nothing follows Issued.
C31_DocumentReview ==
    /\ \A a \in DocumentState, b \in DocumentState :
         DocumentState_can_transition_to(a, b) <=> <<a, b>> \in DocumentTable
    /\ dochist[1] = DocumentState_Draft
    /\ dochist[Len(dochist)] = document.state
    /\ \A i \in 1..(Len(dochist) - 1) :
         /\ dochist[i] # DocumentState_Issued
         /\ dochist[i + 1] = DocumentState_Issued => dochist[i] = DocumentState_Reviewed
         /\ ~(dochist[i] = DocumentState_Draft /\ dochist[i + 1] = DocumentState_Issued)

\* A document sent back to draft once, reviewed again and issued.
C31_Witness ==
    dochist = << DocumentState_Draft, DocumentState_Reviewed, DocumentState_Draft,
                 DocumentState_Reviewed, DocumentState_Issued >>

\* The positions of a state in a history.
Positions(hist, state) == { i \in 1..Len(hist) : hist[i] = state }

\* C32: in every sequence of successful DeliverableState::transition_to calls
\* from Open, a deliverable in Issued was earlier in Initialized, then in
\* InProgress, then in Checking, in that order, and the state immediately
\* before Issued is Checking.
C32_IssuedWasChecked ==
    /\ dhist[1] = Open
    /\ dhist[Len(dhist)] = deliverable.state
    /\ \A k \in Positions(dhist, Issued) :
         /\ k > 1
         /\ dhist[k - 1] = Checking
         /\ \E a \in Positions(dhist, Initialized),
               b \in Positions(dhist, InProgress),
               c \in Positions(dhist, Checking) :
              a < b /\ b < c /\ c < k

\* Issued after the SemanticReady step.
C32_Witness ==
    /\ deliverable.state = Issued
    /\ dhist = <<Open, Initialized, SemanticReady, InProgress, Checking, Issued>>

\* The states a session of a class can reach from a state in at most n
\* permitted transitions.
RECURSIVE SessionReachFrom(_, _, _)
SessionReachFrom(from, agent_class, n) ==
    IF n = 0 THEN {from}
    ELSE LET before == SessionReachFrom(from, agent_class, n - 1) IN
         before \cup { t \in SessionState :
                         \E s \in before :
                           SessionState_can_transition_to(s, t, agent_class) }

\* C33: in every sequence of successful SessionState::transition_to calls
\* from Created, a session in Completed or Failed was Active earlier, and what
\* follows Created is Active or Cancelled; for class Task the state
\* immediately before Completed or Failed is Active, and the states a Task
\* session can reach are exactly Created, Active, Completed, Failed and
\* Cancelled.
C33_FinishedWasActive ==
    /\ shist[1] = Created
    /\ shist[Len(shist)] = session.state
    /\ Len(shist) > 1 => shist[2] \in {Active, Cancelled}
    /\ \A k \in Positions(shist, Completed) \cup Positions(shist, Failed) :
         /\ \E a \in Positions(shist, Active) : a < k
         /\ session.agent_class = Task => k > 1 /\ shist[k - 1] = Active
    /\ session.agent_class = Task =>
         session.state \in {Created, Active, Completed, Failed, Cancelled}
    /\ SessionReachFrom(Created, Task, Cardinality(SessionState))
         = {Created, Active, Completed, Failed, Cancelled}

\* A task session that failed while active.
C33_Witness ==
    /\ session.agent_class = Task
    /\ shist = <<Created, Active, Failed>>
    /\ scall = [self |-> Active, target |-> Failed]
    /\ sres = Ok(Failed)

\* The states a deliverable can reach from a state in at most n permitted
\* transitions.
RECURSIVE DeliverableReachFrom(_, _)
DeliverableReachFrom(from, n) ==
    IF n = 0 THEN {from}
    ELSE LET before == DeliverableReachFrom(from, n - 1) IN
         before \cup { t \in DeliverableState :
                         \E s \in before : DeliverableState_can_transition_to(s, t) }

\* Every non-terminal state of both machines has a permitted transition and
\* a terminal state within reach.
NoDeadEnd ==
    /\ \A s \in DeliverableState :
         ~DeliverableState_is_terminal(s) =>
           /\ \E t \in DeliverableState : DeliverableState_can_transition_to(s, t)
           /\ Issued \in DeliverableReachFrom(s, Cardinality(DeliverableState))
    /\ \A agent_class \in AgentClass, s \in SessionState :
         ~SessionState_is_terminal(s) =>
           /\ \E t \in SessionState : SessionState_can_transition_to(s, t, agent_class)
           /\ \E t \in SessionReachFrom(s, agent_class, Cardinality(SessionState)) :
                SessionState_is_terminal(t)

C36_PresenceOnly ==
    (/\ ValidateCalled
     /\ vagent \in KnownAgents
     /\ ValidatedBrief.task_definition # "")
    => LET inputs == ValidatedBrief.inputs IN
       /\ Value_get(binput, "inputs") = None => inputs = JNull
       /\ (\E k \in KeysOf(inputs) \cap RequiredKeys[vagent] :
              inputs.fields[k] \in {JNull, JString("")}) => vres = UnitOk
       /\ inputs.t # "object" =>
            /\ ~vres.ok
            /\ vres.err # None
            /\ vres.err[1].kind = "InvalidBrief"
       /\ (KeysOf(binput) = {"task_definition"} /\ vagent = "4_DOCUMENTS") =>
            vres = BriefErr(DomainError_InvalidBrief(
                       "4_DOCUMENTS requires deliverable_id in inputs"))

\* The input with task_definition alone, validated for 4_DOCUMENTS.
C36_Witness ==
    /\ ValidateCalled
    /\ vagent = "4_DOCUMENTS"
    /\ KeysOf(binput) = {"task_definition"}
    /\ ValidatedBrief.task_definition = "X"
    /\ ValidatedBrief.inputs = JNull
    /\ ~vres.ok

\* C37: a Package's folder_name always starts with the package's own id:
\* after Package::new and after any following with_legacy_id or
\* with_scope_items, folder_name is the package's id followed by '_' and the
\* sanitized label, in which every character of the label that is neither
\* alphanumeric nor '_' is replaced by '_'.
C37_FolderNameCarriesId ==
    package.folder_name =
        package.id \o "_"
          \o Collect([ i \in 1..Len(package.label) |->
                         IF package.label[i] \in {"A", "7", "_"}
                         THEN package.label[i] ELSE "_" ])

====
